---- MODULE Spec2Model ----
(***************************************************************************)
(* Address checker: spreadsheet rows are resolved against a reference      *)
(* database of post offices (src/main.py, src/processors/matcher.py,       *)
(* src/processors/excel_processor.py, src/parsers/html_parser.py).         *)
(*                                                                         *)
(* Text is a sequence of Unicode code points.  Scores are Python floats    *)
(* (IEEE-754 binary64): a float is a record [m, e] standing for m * 2^e,   *)
(* with m a 53-bit integer held in four 14-bit limbs, and every operation  *)
(* rounds to nearest, ties to even, as the interpreter does.               *)
(***************************************************************************)
EXTENDS Integers, Sequences, FiniteSets, TLC

(***************************************************************************)
(* Op at the value of v.  The value is bound through a one-element set, so *)
(* it is computed once however often Op uses it.                           *)
(***************************************************************************)
With(v, Op(_)) == CHOOSE r \in {Op(x) : x \in {v}} : TRUE

(***************************************************************************)
(* Natural numbers beyond 32 bits: little-endian sequences of limbs.       *)
(***************************************************************************)
LimbBits == 14

LimbBase == 2^LimbBits

RECURSIVE BigAddC(_, _, _)
BigAddC(a, b, c) ==
    IF a = <<>> /\ b = <<>>
    THEN (IF c = 0 THEN <<>> ELSE <<c>>)
    ELSE With((IF a = <<>> THEN 0 ELSE Head(a)) + (IF b = <<>> THEN 0 ELSE Head(b)) + c,
              LAMBDA s :
                  <<s % LimbBase>> \o BigAddC(IF a = <<>> THEN <<>> ELSE Tail(a),
                                              IF b = <<>> THEN <<>> ELSE Tail(b),
                                              s \div LimbBase))

BigAdd(a, b) == With(<<a, b>>, LAMBDA p : BigAddC(p[1], p[2], 0))

RECURSIVE BigMulSmallC(_, _, _)
BigMulSmallC(a, k, c) ==
    IF a = <<>>
    THEN (IF c = 0 THEN <<>>
          ELSE <<c % LimbBase>> \o BigMulSmallC(<<>>, k, c \div LimbBase))
    ELSE With(Head(a) * k + c,
              LAMBDA s : <<s % LimbBase>> \o BigMulSmallC(Tail(a), k, s \div LimbBase))

\* a * k for a small k (0 <= k < 2^16)
BigMulSmall(a, k) == With(<<a, k>>, LAMBDA p : BigMulSmallC(p[1], p[2], 0))

BigFromInt(n) == With(n, LAMBDA c : BigMulSmallC(<<>>, 0, c))

RECURSIVE BigMulR(_, _)
BigMulR(a, b) ==
    IF b = <<>> THEN <<>>
    ELSE BigAdd(BigMulSmall(a, Head(b)), <<0>> \o BigMulR(a, Tail(b)))

BigMul(a, b) == With(<<a, b>>, LAMBDA p : BigMulR(p[1], p[2]))

\* quotient and remainder of a by a small divisor d (0 < d < 2^16)
RECURSIVE BigDivQRR(_, _)
BigDivQRR(a, d) ==
    IF a = <<>> THEN [q |-> <<>>, r |-> 0]
    ELSE With(BigDivQRR(Tail(a), d),
              LAMBDA hi : [q |-> <<(hi.r * LimbBase + Head(a)) \div d>> \o hi.q,
                           r |-> (hi.r * LimbBase + Head(a)) % d])

BigDivQR(a, d) == With(<<a, d>>, LAMBDA p : BigDivQRR(p[1], p[2]))

BigShl(a, k) ==
    With(k, LAMBDA n : [i \in 1..(n \div LimbBits) |-> 0] \o BigMulSmall(a, 2^(n % LimbBits)))

BigShr(a, k) ==
    With(<<a, k>>,
         LAMBDA p : IF p[2] \div LimbBits >= Len(p[1]) THEN <<>>
                    ELSE BigDivQR(SubSeq(p[1], p[2] \div LimbBits + 1, Len(p[1])),
                                  2^(p[2] % LimbBits)).q)

RECURSIVE IntBitLen(_)
IntBitLen(n) == IF n = 0 THEN 0 ELSE 1 + IntBitLen(n \div 2)

\* the number of bits of a (a is a value)
BigBitLen(a) ==
    With({i \in 1..Len(a) : a[i] # 0},
         LAMBDA nz : IF nz = {} THEN 0
                     ELSE With(CHOOSE i \in nz : \A j \in nz : j <= i,
                               LAMBDA top : LimbBits * (top - 1) + IntBitLen(a[top])))

\* bit i of a (bit 0 is the least significant; a is a value)
BigBit(a, i) ==
    IF i \div LimbBits + 1 > Len(a) THEN 0
    ELSE (a[i \div LimbBits + 1] \div 2^(i % LimbBits)) % 2

\* TRUE iff the k lowest bits of a are all zero (a is a value)
BigLowZero(a, k) ==
    /\ \A p \in 1..(k \div LimbBits) : p > Len(a) \/ a[p] = 0
    /\ k \div LimbBits + 1 > Len(a) \/ a[k \div LimbBits + 1] % 2^(k % LimbBits) = 0

\* a as exactly four limbs (a < 2^56)
Limbs4(a) == With(a, LAMBDA v : [p \in 1..4 |-> IF p <= Len(v) THEN v[p] ELSE 0])

\* comparison of two four-limb numbers: -1, 0, 1 (a and b are values)
BigCmp4(a, b) ==
    IF a = b THEN 0
    ELSE With(CHOOSE i \in 1..4 : a[i] # b[i] /\ \A j \in (i+1)..4 : a[j] = b[j],
              LAMBDA p : IF a[p] < b[p] THEN -1 ELSE 1)

(***************************************************************************)
(* binary64 values (all the program's scores are finite and >= 0).         *)
(***************************************************************************)
\* significand bits of a binary64 value
MantBits == 53

FZero == [m |-> <<0, 0, 0, 0>>, e |-> 0]

\* a * 2^e with a of n > MantBits bits, rounded to nearest, ties to even
\* (a, e and n are values)
FRoundDown(a, e, n) ==
    With(BigShr(a, n - MantBits),
         LAMBDA q :
             With(IF /\ BigBit(a, n - MantBits - 1) = 1
                     /\ (~BigLowZero(a, n - MantBits - 1) \/ BigBit(q, 0) = 1)
                  THEN BigAdd(q, <<1>>) ELSE q,
                  LAMBDA q2 :
                      IF BigBitLen(q2) > MantBits
                      THEN [m |-> Limbs4(BigShr(q2, 1)), e |-> e + (n - MantBits) + 1]
                      ELSE [m |-> Limbs4(q2), e |-> e + (n - MantBits)]))

\* the float nearest to a * 2^e
FRound(a, e) ==
    With(<<a, e>>,
         LAMBDA p :
             With(BigBitLen(p[1]),
                  LAMBDA n :
                      IF n = 0 THEN FZero
                      ELSE IF n <= MantBits
                      THEN [m |-> Limbs4(BigShl(p[1], MantBits - n)),
                            e |-> p[2] - (MantBits - n)]
                      ELSE FRoundDown(p[1], p[2], n)))

\* the float nearest to the rational n/d (0 <= n < 2^16, 0 < d < 2^16):
\* a decimal literal such as 0.3 is FRat(3, 10), and x / y of two small
\* integer-valued floats is FRat(x, y)
FRat(n, d) ==
    With(BigDivQR(BigShl(BigFromInt(n), 5 * LimbBits), d),
         LAMBDA qr :
             FRound(BigAdd(BigMulSmall(qr.q, 2), IF qr.r = 0 THEN <<>> ELSE <<1>>),
                    0 - (5 * LimbBits + 1)))

FMul(x, y) ==
    With(<<x, y>>, LAMBDA p : FRound(BigMul(p[1].m, p[2].m), p[1].e + p[2].e))

\* x + y for two nonzero values
FAddNonZero(x, y) ==
    With(IF x.e < y.e THEN x.e ELSE y.e,
         LAMBDA e : FRound(BigAdd(BigShl(x.m, x.e - e), BigShl(y.m, y.e - e)), e))

FAdd(x, y) ==
    With(<<x, y>>,
         LAMBDA p : IF p[1] = FZero THEN p[2]
                    ELSE IF p[2] = FZero THEN p[1]
                    ELSE FAddNonZero(p[1], p[2]))

FLt(x, y) ==
    With(<<x, y>>,
         LAMBDA p : IF p[2] = FZero THEN FALSE
                    ELSE IF p[1] = FZero THEN TRUE
                    ELSE \/ p[1].e < p[2].e
                         \/ p[1].e = p[2].e /\ BigCmp4(p[1].m, p[2].m) < 0)

FGe(x, y) == ~FLt(x, y)

FGt(x, y) == FLt(y, x)

FOne == FRat(1, 1)

F03 == FRat(3, 10)

(***************************************************************************)
(* Text: sequences of Unicode code points.  The recursive operators are    *)
(* applied to values.                                                      *)
(***************************************************************************)
\* the code points for which str.isspace() holds; str.strip(), str.split()
\* and the regular expression \s use the same set
IsSpace(c) ==
    c \in
        { 9, 10, 11, 12, 13, 28, 29, 30, 31, 32, 133, 160, 5760, 8192, 8193, 8194,
          8195, 8196, 8197, 8198, 8199, 8200, 8201, 8202, 8232, 8233, 8239, 8287,
          12288 }

\* regex \d on str: every Unicode decimal digit (category Nd), in runs
\* <<first, last>>
IsDigit(c) ==
    IF c < 128 THEN c \in 48..57
    ELSE \E r \in
        { <<48, 57>>, <<1632, 1641>>, <<1776, 1785>>, <<1984, 1993>>,
          <<2406, 2415>>, <<2534, 2543>>, <<2662, 2671>>, <<2790, 2799>>,
          <<2918, 2927>>, <<3046, 3055>>, <<3174, 3183>>, <<3302, 3311>>,
          <<3430, 3439>>, <<3558, 3567>>, <<3664, 3673>>, <<3792, 3801>>,
          <<3872, 3881>>, <<4160, 4169>>, <<4240, 4249>>, <<6112, 6121>>,
          <<6160, 6169>>, <<6470, 6479>>, <<6608, 6617>>, <<6784, 6793>>,
          <<6800, 6809>>, <<6992, 7001>>, <<7088, 7097>>, <<7232, 7241>>,
          <<7248, 7257>>, <<42528, 42537>>, <<43216, 43225>>, <<43264, 43273>>,
          <<43472, 43481>>, <<43504, 43513>>, <<43600, 43609>>, <<44016, 44025>>,
          <<65296, 65305>>, <<66720, 66729>>, <<68912, 68921>>, <<69734, 69743>>,
          <<69872, 69881>>, <<69942, 69951>>, <<70096, 70105>>, <<70384, 70393>>,
          <<70736, 70745>>, <<70864, 70873>>, <<71248, 71257>>, <<71360, 71369>>,
          <<71472, 71481>>, <<71904, 71913>>, <<72016, 72025>>, <<72784, 72793>>,
          <<73040, 73049>>, <<73120, 73129>>, <<92768, 92777>>, <<92864, 92873>>,
          <<93008, 93017>>, <<120782, 120831>>, <<123200, 123209>>,
          <<123632, 123641>>, <<125264, 125273>>, <<130032, 130041>> } :
             c \in r[1]..r[2]

\* the lower-case mapping of the interpreter's Unicode database, as runs
\* <<first, last, delta, step>>: the code points first, first + step, ...,
\* last have the lower-case form c + delta
LowerRuns ==
    { <<65, 90, 32, 1>>, <<192, 214, 32, 1>>, <<216, 222, 32, 1>>,
      <<256, 302, 1, 2>>, <<304, 304, -199, 1>>, <<306, 310, 1, 2>>,
      <<313, 327, 1, 2>>, <<330, 374, 1, 2>>, <<376, 376, -121, 1>>,
      <<377, 381, 1, 2>>, <<385, 385, 210, 1>>, <<386, 388, 1, 2>>,
      <<390, 390, 206, 1>>, <<391, 391, 1, 1>>, <<393, 394, 205, 1>>,
      <<395, 395, 1, 1>>, <<398, 398, 79, 1>>, <<399, 399, 202, 1>>,
      <<400, 400, 203, 1>>, <<401, 401, 1, 1>>, <<403, 403, 205, 1>>,
      <<404, 404, 207, 1>>, <<406, 406, 211, 1>>, <<407, 407, 209, 1>>,
      <<408, 408, 1, 1>>, <<412, 412, 211, 1>>, <<413, 413, 213, 1>>,
      <<415, 415, 214, 1>>, <<416, 420, 1, 2>>, <<422, 422, 218, 1>>,
      <<423, 423, 1, 1>>, <<425, 425, 218, 1>>, <<428, 428, 1, 1>>,
      <<430, 430, 218, 1>>, <<431, 431, 1, 1>>, <<433, 434, 217, 1>>,
      <<435, 437, 1, 2>>, <<439, 439, 219, 1>>, <<440, 440, 1, 1>>,
      <<444, 444, 1, 1>>, <<452, 452, 2, 1>>, <<453, 453, 1, 1>>,
      <<455, 455, 2, 1>>, <<456, 456, 1, 1>>, <<458, 458, 2, 1>>,
      <<459, 475, 1, 2>>, <<478, 494, 1, 2>>, <<497, 497, 2, 1>>,
      <<498, 500, 1, 2>>, <<502, 502, -97, 1>>, <<503, 503, -56, 1>>,
      <<504, 542, 1, 2>>, <<544, 544, -130, 1>>, <<546, 562, 1, 2>>,
      <<570, 570, 10795, 1>>, <<571, 571, 1, 1>>, <<573, 573, -163, 1>>,
      <<574, 574, 10792, 1>>, <<577, 577, 1, 1>>, <<579, 579, -195, 1>>,
      <<580, 580, 69, 1>>, <<581, 581, 71, 1>>, <<582, 590, 1, 2>>,
      <<880, 882, 1, 2>>, <<886, 886, 1, 1>>, <<895, 895, 116, 1>>,
      <<902, 902, 38, 1>>, <<904, 906, 37, 1>>, <<908, 908, 64, 1>>,
      <<910, 911, 63, 1>>, <<913, 929, 32, 1>>, <<931, 939, 32, 1>>,
      <<975, 975, 8, 1>>, <<984, 1006, 1, 2>>, <<1012, 1012, -60, 1>>,
      <<1015, 1015, 1, 1>>, <<1017, 1017, -7, 1>>, <<1018, 1018, 1, 1>>,
      <<1021, 1023, -130, 1>>, <<1024, 1039, 80, 1>>, <<1040, 1071, 32, 1>>,
      <<1120, 1152, 1, 2>>, <<1162, 1214, 1, 2>>, <<1216, 1216, 15, 1>>,
      <<1217, 1229, 1, 2>>, <<1232, 1326, 1, 2>>, <<1329, 1366, 48, 1>>,
      <<4256, 4293, 7264, 1>>, <<4295, 4295, 7264, 1>>,
      <<4301, 4301, 7264, 1>>, <<5024, 5103, 38864, 1>>, <<5104, 5109, 8, 1>>,
      <<7312, 7354, -3008, 1>>, <<7357, 7359, -3008, 1>>,
      <<7680, 7828, 1, 2>>, <<7838, 7838, -7615, 1>>, <<7840, 7934, 1, 2>>,
      <<7944, 7951, -8, 1>>, <<7960, 7965, -8, 1>>, <<7976, 7983, -8, 1>>,
      <<7992, 7999, -8, 1>>, <<8008, 8013, -8, 1>>, <<8025, 8025, -8, 1>>,
      <<8027, 8027, -8, 1>>, <<8029, 8029, -8, 1>>, <<8031, 8031, -8, 1>>,
      <<8040, 8047, -8, 1>>, <<8072, 8079, -8, 1>>, <<8088, 8095, -8, 1>>,
      <<8104, 8111, -8, 1>>, <<8120, 8121, -8, 1>>, <<8122, 8123, -74, 1>>,
      <<8124, 8124, -9, 1>>, <<8136, 8139, -86, 1>>, <<8140, 8140, -9, 1>>,
      <<8152, 8153, -8, 1>>, <<8154, 8155, -100, 1>>, <<8168, 8169, -8, 1>>,
      <<8170, 8171, -112, 1>>, <<8172, 8172, -7, 1>>, <<8184, 8185, -128, 1>>,
      <<8186, 8187, -126, 1>>, <<8188, 8188, -9, 1>>,
      <<8486, 8486, -7517, 1>>, <<8490, 8490, -8383, 1>>,
      <<8491, 8491, -8262, 1>>, <<8498, 8498, 28, 1>>, <<8544, 8559, 16, 1>>,
      <<8579, 8579, 1, 1>>, <<9398, 9423, 26, 1>>, <<11264, 11311, 48, 1>>,
      <<11360, 11360, 1, 1>>, <<11362, 11362, -10743, 1>>,
      <<11363, 11363, -3814, 1>>, <<11364, 11364, -10727, 1>>,
      <<11367, 11371, 1, 2>>, <<11373, 11373, -10780, 1>>,
      <<11374, 11374, -10749, 1>>, <<11375, 11375, -10783, 1>>,
      <<11376, 11376, -10782, 1>>, <<11378, 11378, 1, 1>>,
      <<11381, 11381, 1, 1>>, <<11390, 11391, -10815, 1>>,
      <<11392, 11490, 1, 2>>, <<11499, 11501, 1, 2>>, <<11506, 11506, 1, 1>>,
      <<42560, 42604, 1, 2>>, <<42624, 42650, 1, 2>>, <<42786, 42798, 1, 2>>,
      <<42802, 42862, 1, 2>>, <<42873, 42875, 1, 2>>,
      <<42877, 42877, -35332, 1>>, <<42878, 42886, 1, 2>>,
      <<42891, 42891, 1, 1>>, <<42893, 42893, -42280, 1>>,
      <<42896, 42898, 1, 2>>, <<42902, 42920, 1, 2>>,
      <<42922, 42922, -42308, 1>>, <<42923, 42923, -42319, 1>>,
      <<42924, 42924, -42315, 1>>, <<42925, 42925, -42305, 1>>,
      <<42926, 42926, -42308, 1>>, <<42928, 42928, -42258, 1>>,
      <<42929, 42929, -42282, 1>>, <<42930, 42930, -42261, 1>>,
      <<42931, 42931, 928, 1>>, <<42932, 42946, 1, 2>>,
      <<42948, 42948, -48, 1>>, <<42949, 42949, -42307, 1>>,
      <<42950, 42950, -35384, 1>>, <<42951, 42953, 1, 2>>,
      <<42960, 42960, 1, 1>>, <<42966, 42968, 1, 2>>, <<42997, 42997, 1, 1>>,
      <<65313, 65338, 32, 1>>, <<66560, 66599, 40, 1>>,
      <<66736, 66771, 40, 1>>, <<66928, 66938, 39, 1>>,
      <<66940, 66954, 39, 1>>, <<66956, 66962, 39, 1>>,
      <<66964, 66965, 39, 1>>, <<68736, 68786, 64, 1>>,
      <<71840, 71871, 32, 1>>, <<93760, 93791, 32, 1>>,
      <<125184, 125217, 34, 1>> }

\* the lower-case form of one code point (one code point; U+0130, the only
\* letter whose lower-case form has two, gives their first, "i")
LowerChar(c) ==
    IF c < 128 THEN (IF c \in 65..90 THEN c + 32 ELSE c)
    ELSE With({r \in LowerRuns : c \in r[1]..r[2] /\ (c - r[1]) % r[4] = 0},
              LAMBDA hits : IF hits = {} THEN c
                            ELSE c + (CHOOSE r \in hits : TRUE)[3])

\* the cased code points, in runs <<first, last>>
IsCased(c) ==
    \E r \in
        { <<65, 90>>, <<97, 122>>, <<170, 170>>, <<181, 181>>, <<186, 186>>,
          <<192, 214>>, <<216, 246>>, <<248, 442>>, <<444, 447>>, <<452, 659>>,
          <<661, 696>>, <<704, 705>>, <<736, 740>>, <<837, 837>>, <<880, 883>>,
          <<886, 887>>, <<890, 893>>, <<895, 895>>, <<902, 902>>, <<904, 906>>,
          <<908, 908>>, <<910, 929>>, <<931, 1013>>, <<1015, 1153>>,
          <<1162, 1327>>, <<1329, 1366>>, <<1376, 1416>>, <<4256, 4293>>,
          <<4295, 4295>>, <<4301, 4301>>, <<4304, 4346>>, <<4349, 4351>>,
          <<5024, 5109>>, <<5112, 5117>>, <<7296, 7304>>, <<7312, 7354>>,
          <<7357, 7359>>, <<7424, 7615>>, <<7680, 7957>>, <<7960, 7965>>,
          <<7968, 8005>>, <<8008, 8013>>, <<8016, 8023>>, <<8025, 8025>>,
          <<8027, 8027>>, <<8029, 8029>>, <<8031, 8061>>, <<8064, 8116>>,
          <<8118, 8124>>, <<8126, 8126>>, <<8130, 8132>>, <<8134, 8140>>,
          <<8144, 8147>>, <<8150, 8155>>, <<8160, 8172>>, <<8178, 8180>>,
          <<8182, 8188>>, <<8305, 8305>>, <<8319, 8319>>, <<8336, 8348>>,
          <<8450, 8450>>, <<8455, 8455>>, <<8458, 8467>>, <<8469, 8469>>,
          <<8473, 8477>>, <<8484, 8484>>, <<8486, 8486>>, <<8488, 8488>>,
          <<8490, 8493>>, <<8495, 8500>>, <<8505, 8505>>, <<8508, 8511>>,
          <<8517, 8521>>, <<8526, 8526>>, <<8544, 8575>>, <<8579, 8580>>,
          <<9398, 9449>>, <<11264, 11492>>, <<11499, 11502>>, <<11506, 11507>>,
          <<11520, 11557>>, <<11559, 11559>>, <<11565, 11565>>, <<42560, 42605>>,
          <<42624, 42653>>, <<42786, 42887>>, <<42891, 42894>>, <<42896, 42954>>,
          <<42960, 42961>>, <<42963, 42963>>, <<42965, 42969>>, <<42997, 42998>>,
          <<43000, 43002>>, <<43824, 43866>>, <<43868, 43880>>, <<43888, 43967>>,
          <<64256, 64262>>, <<64275, 64279>>, <<65313, 65338>>, <<65345, 65370>>,
          <<66560, 66639>>, <<66736, 66771>>, <<66776, 66811>>, <<66928, 66938>>,
          <<66940, 66954>>, <<66956, 66962>>, <<66964, 66965>>, <<66967, 66977>>,
          <<66979, 66993>>, <<66995, 67001>>, <<67003, 67004>>, <<67456, 67456>>,
          <<67459, 67461>>, <<67463, 67504>>, <<67506, 67514>>, <<68736, 68786>>,
          <<68800, 68850>>, <<71840, 71903>>, <<93760, 93823>>,
          <<119808, 119892>>, <<119894, 119964>>, <<119966, 119967>>,
          <<119970, 119970>>, <<119973, 119974>>, <<119977, 119980>>,
          <<119982, 119993>>, <<119995, 119995>>, <<119997, 120003>>,
          <<120005, 120069>>, <<120071, 120074>>, <<120077, 120084>>,
          <<120086, 120092>>, <<120094, 120121>>, <<120123, 120126>>,
          <<120128, 120132>>, <<120134, 120134>>, <<120138, 120144>>,
          <<120146, 120485>>, <<120488, 120512>>, <<120514, 120538>>,
          <<120540, 120570>>, <<120572, 120596>>, <<120598, 120628>>,
          <<120630, 120654>>, <<120656, 120686>>, <<120688, 120712>>,
          <<120714, 120744>>, <<120746, 120770>>, <<120772, 120779>>,
          <<122624, 122633>>, <<122635, 122654>>, <<125184, 125251>>,
          <<127280, 127305>>, <<127312, 127337>>, <<127344, 127369>> } :
        c \in r[1]..r[2]

\* the case-ignorable code points, in runs <<first, last>>
IsCaseIgnorable(c) ==
    \E r \in
        { <<39, 39>>, <<46, 46>>, <<58, 58>>, <<94, 94>>, <<96, 96>>,
          <<168, 168>>, <<173, 173>>, <<175, 175>>, <<180, 180>>, <<183, 184>>,
          <<688, 879>>, <<884, 885>>, <<890, 890>>, <<900, 901>>, <<903, 903>>,
          <<1155, 1161>>, <<1369, 1369>>, <<1375, 1375>>, <<1425, 1469>>,
          <<1471, 1471>>, <<1473, 1474>>, <<1476, 1477>>, <<1479, 1479>>,
          <<1524, 1524>>, <<1536, 1541>>, <<1552, 1562>>, <<1564, 1564>>,
          <<1600, 1600>>, <<1611, 1631>>, <<1648, 1648>>, <<1750, 1757>>,
          <<1759, 1768>>, <<1770, 1773>>, <<1807, 1807>>, <<1809, 1809>>,
          <<1840, 1866>>, <<1958, 1968>>, <<2027, 2037>>, <<2042, 2042>>,
          <<2045, 2045>>, <<2070, 2093>>, <<2137, 2139>>, <<2184, 2184>>,
          <<2192, 2193>>, <<2200, 2207>>, <<2249, 2306>>, <<2362, 2362>>,
          <<2364, 2364>>, <<2369, 2376>>, <<2381, 2381>>, <<2385, 2391>>,
          <<2402, 2403>>, <<2417, 2417>>, <<2433, 2433>>, <<2492, 2492>>,
          <<2497, 2500>>, <<2509, 2509>>, <<2530, 2531>>, <<2558, 2558>>,
          <<2561, 2562>>, <<2620, 2620>>, <<2625, 2626>>, <<2631, 2632>>,
          <<2635, 2637>>, <<2641, 2641>>, <<2672, 2673>>, <<2677, 2677>>,
          <<2689, 2690>>, <<2748, 2748>>, <<2753, 2757>>, <<2759, 2760>>,
          <<2765, 2765>>, <<2786, 2787>>, <<2810, 2815>>, <<2817, 2817>>,
          <<2876, 2876>>, <<2879, 2879>>, <<2881, 2884>>, <<2893, 2893>>,
          <<2901, 2902>>, <<2914, 2915>>, <<2946, 2946>>, <<3008, 3008>>,
          <<3021, 3021>>, <<3072, 3072>>, <<3076, 3076>>, <<3132, 3132>>,
          <<3134, 3136>>, <<3142, 3144>>, <<3146, 3149>>, <<3157, 3158>>,
          <<3170, 3171>>, <<3201, 3201>>, <<3260, 3260>>, <<3263, 3263>>,
          <<3270, 3270>>, <<3276, 3277>>, <<3298, 3299>>, <<3328, 3329>>,
          <<3387, 3388>>, <<3393, 3396>>, <<3405, 3405>>, <<3426, 3427>>,
          <<3457, 3457>>, <<3530, 3530>>, <<3538, 3540>>, <<3542, 3542>>,
          <<3633, 3633>>, <<3636, 3642>>, <<3654, 3662>>, <<3761, 3761>>,
          <<3764, 3772>>, <<3782, 3782>>, <<3784, 3789>>, <<3864, 3865>>,
          <<3893, 3893>>, <<3895, 3895>>, <<3897, 3897>>, <<3953, 3966>>,
          <<3968, 3972>>, <<3974, 3975>>, <<3981, 3991>>, <<3993, 4028>>,
          <<4038, 4038>>, <<4141, 4144>>, <<4146, 4151>>, <<4153, 4154>>,
          <<4157, 4158>>, <<4184, 4185>>, <<4190, 4192>>, <<4209, 4212>>,
          <<4226, 4226>>, <<4229, 4230>>, <<4237, 4237>>, <<4253, 4253>>,
          <<4348, 4348>>, <<4957, 4959>>, <<5906, 5908>>, <<5938, 5939>>,
          <<5970, 5971>>, <<6002, 6003>>, <<6068, 6069>>, <<6071, 6077>>,
          <<6086, 6086>>, <<6089, 6099>>, <<6103, 6103>>, <<6109, 6109>>,
          <<6155, 6159>>, <<6211, 6211>>, <<6277, 6278>>, <<6313, 6313>>,
          <<6432, 6434>>, <<6439, 6440>>, <<6450, 6450>>, <<6457, 6459>>,
          <<6679, 6680>>, <<6683, 6683>>, <<6742, 6742>>, <<6744, 6750>>,
          <<6752, 6752>>, <<6754, 6754>>, <<6757, 6764>>, <<6771, 6780>>,
          <<6783, 6783>>, <<6823, 6823>>, <<6832, 6862>>, <<6912, 6915>>,
          <<6964, 6964>>, <<6966, 6970>>, <<6972, 6972>>, <<6978, 6978>>,
          <<7019, 7027>>, <<7040, 7041>>, <<7074, 7077>>, <<7080, 7081>>,
          <<7083, 7085>>, <<7142, 7142>>, <<7144, 7145>>, <<7149, 7149>>,
          <<7151, 7153>>, <<7212, 7219>>, <<7222, 7223>>, <<7288, 7293>>,
          <<7376, 7378>>, <<7380, 7392>>, <<7394, 7400>>, <<7405, 7405>>,
          <<7412, 7412>>, <<7416, 7417>>, <<7468, 7530>>, <<7544, 7544>>,
          <<7579, 7679>>, <<8125, 8125>>, <<8127, 8129>>, <<8141, 8143>>,
          <<8157, 8159>>, <<8173, 8175>>, <<8189, 8190>>, <<8203, 8207>>,
          <<8216, 8217>>, <<8228, 8228>>, <<8231, 8231>>, <<8234, 8238>>,
          <<8288, 8292>>, <<8294, 8303>>, <<8305, 8305>>, <<8319, 8319>>,
          <<8336, 8348>>, <<8400, 8432>>, <<11388, 11389>>, <<11503, 11505>>,
          <<11631, 11631>>, <<11647, 11647>>, <<11744, 11775>>, <<11823, 11823>>,
          <<12293, 12293>>, <<12330, 12333>>, <<12337, 12341>>, <<12347, 12347>>,
          <<12441, 12446>>, <<12540, 12542>>, <<40981, 40981>>, <<42232, 42237>>,
          <<42508, 42508>>, <<42607, 42610>>, <<42612, 42621>>, <<42623, 42623>>,
          <<42652, 42655>>, <<42736, 42737>>, <<42752, 42785>>, <<42864, 42864>>,
          <<42888, 42890>>, <<42994, 42996>>, <<43000, 43001>>, <<43010, 43010>>,
          <<43014, 43014>>, <<43019, 43019>>, <<43045, 43046>>, <<43052, 43052>>,
          <<43204, 43205>>, <<43232, 43249>>, <<43263, 43263>>, <<43302, 43309>>,
          <<43335, 43345>>, <<43392, 43394>>, <<43443, 43443>>, <<43446, 43449>>,
          <<43452, 43453>>, <<43471, 43471>>, <<43493, 43494>>, <<43561, 43566>>,
          <<43569, 43570>>, <<43573, 43574>>, <<43587, 43587>>, <<43596, 43596>>,
          <<43632, 43632>>, <<43644, 43644>>, <<43696, 43696>>, <<43698, 43700>>,
          <<43703, 43704>>, <<43710, 43711>>, <<43713, 43713>>, <<43741, 43741>>,
          <<43756, 43757>>, <<43763, 43764>>, <<43766, 43766>>, <<43867, 43871>>,
          <<43881, 43883>>, <<44005, 44005>>, <<44008, 44008>>, <<44013, 44013>>,
          <<64286, 64286>>, <<64434, 64450>>, <<65024, 65039>>, <<65043, 65043>>,
          <<65056, 65071>>, <<65106, 65106>>, <<65109, 65109>>, <<65279, 65279>>,
          <<65287, 65287>>, <<65294, 65294>>, <<65306, 65306>>, <<65342, 65342>>,
          <<65344, 65344>>, <<65392, 65392>>, <<65438, 65439>>, <<65507, 65507>>,
          <<65529, 65531>>, <<66045, 66045>>, <<66272, 66272>>, <<66422, 66426>>,
          <<67456, 67461>>, <<67463, 67504>>, <<67506, 67514>>, <<68097, 68099>>,
          <<68101, 68102>>, <<68108, 68111>>, <<68152, 68154>>, <<68159, 68159>>,
          <<68325, 68326>>, <<68900, 68903>>, <<69291, 69292>>, <<69446, 69456>>,
          <<69506, 69509>>, <<69633, 69633>>, <<69688, 69702>>, <<69744, 69744>>,
          <<69747, 69748>>, <<69759, 69761>>, <<69811, 69814>>, <<69817, 69818>>,
          <<69821, 69821>>, <<69826, 69826>>, <<69837, 69837>>, <<69888, 69890>>,
          <<69927, 69931>>, <<69933, 69940>>, <<70003, 70003>>, <<70016, 70017>>,
          <<70070, 70078>>, <<70089, 70092>>, <<70095, 70095>>, <<70191, 70193>>,
          <<70196, 70196>>, <<70198, 70199>>, <<70206, 70206>>, <<70367, 70367>>,
          <<70371, 70378>>, <<70400, 70401>>, <<70459, 70460>>, <<70464, 70464>>,
          <<70502, 70508>>, <<70512, 70516>>, <<70712, 70719>>, <<70722, 70724>>,
          <<70726, 70726>>, <<70750, 70750>>, <<70835, 70840>>, <<70842, 70842>>,
          <<70847, 70848>>, <<70850, 70851>>, <<71090, 71093>>, <<71100, 71101>>,
          <<71103, 71104>>, <<71132, 71133>>, <<71219, 71226>>, <<71229, 71229>>,
          <<71231, 71232>>, <<71339, 71339>>, <<71341, 71341>>, <<71344, 71349>>,
          <<71351, 71351>>, <<71453, 71455>>, <<71458, 71461>>, <<71463, 71467>>,
          <<71727, 71735>>, <<71737, 71738>>, <<71995, 71996>>, <<71998, 71998>>,
          <<72003, 72003>>, <<72148, 72151>>, <<72154, 72155>>, <<72160, 72160>>,
          <<72193, 72202>>, <<72243, 72248>>, <<72251, 72254>>, <<72263, 72263>>,
          <<72273, 72278>>, <<72281, 72283>>, <<72330, 72342>>, <<72344, 72345>>,
          <<72752, 72758>>, <<72760, 72765>>, <<72767, 72767>>, <<72850, 72871>>,
          <<72874, 72880>>, <<72882, 72883>>, <<72885, 72886>>, <<73009, 73014>>,
          <<73018, 73018>>, <<73020, 73021>>, <<73023, 73029>>, <<73031, 73031>>,
          <<73104, 73105>>, <<73109, 73109>>, <<73111, 73111>>, <<73459, 73460>>,
          <<78896, 78904>>, <<92912, 92916>>, <<92976, 92982>>, <<92992, 92995>>,
          <<94031, 94031>>, <<94095, 94111>>, <<94176, 94177>>, <<94179, 94180>>,
          <<110576, 110579>>, <<110581, 110587>>, <<110589, 110590>>,
          <<113821, 113822>>, <<113824, 113827>>, <<118528, 118573>>,
          <<118576, 118598>>, <<119143, 119145>>, <<119155, 119170>>,
          <<119173, 119179>>, <<119210, 119213>>, <<119362, 119364>>,
          <<121344, 121398>>, <<121403, 121452>>, <<121461, 121461>>,
          <<121476, 121476>>, <<121499, 121503>>, <<121505, 121519>>,
          <<122880, 122886>>, <<122888, 122904>>, <<122907, 122913>>,
          <<122915, 122916>>, <<122918, 122922>>, <<123184, 123197>>,
          <<123566, 123566>>, <<123628, 123631>>, <<125136, 125142>>,
          <<125252, 125259>>, <<127995, 127999>>, <<917505, 917505>>,
          <<917536, 917631>>, <<917760, 917999>> } :
        c \in r[1]..r[2]

\* str.lower() of the capital sigma at v[i]: the final form U+03C2 when a
\* cased letter comes before it and none after it, case-ignorable code
\* points skipped on both sides; else U+03C3
LowerSigma(v, i) ==
    With(<<{j \in 1..(i - 1) : ~IsCaseIgnorable(v[j])},
           {j \in (i + 1)..Len(v) : ~IsCaseIgnorable(v[j])}>>,
         LAMBDA near :
             IF /\ near[1] # {}
                /\ IsCased(v[CHOOSE j \in near[1] : \A k \in near[1] : k <= j])
                /\ \/ near[2] = {}
                   \/ ~IsCased(v[CHOOSE j \in near[2] : \A k \in near[2] : j <= k])
             THEN 962 ELSE 963)

\* str.lower() from position i on
RECURSIVE LowerFrom(_, _)
LowerFrom(v, i) ==
    IF i > Len(v) THEN <<>>
    ELSE (IF v[i] = 931 THEN <<LowerSigma(v, i)>>
          ELSE IF v[i] = 304 THEN <<105, 775>>
          ELSE <<LowerChar(v[i])>>) \o LowerFrom(v, i + 1)

\* str.lower()
Lower(s) ==
    With(s, LAMBDA v :
        IF \A i \in 1..Len(v) : v[i] \notin {304, 931}
        THEN [i \in 1..Len(v) |-> LowerChar(v[i])]
        ELSE LowerFrom(v, 1))

\* s without its leading whitespace
LStrip(s) ==
    With(s, LAMBDA v :
        With({i \in 1..Len(v) : ~IsSpace(v[i])},
             LAMBDA keep : IF keep = {} THEN <<>>
                           ELSE SubSeq(v, CHOOSE i \in keep : \A j \in keep : i <= j, Len(v))))

\* s without its trailing whitespace
RStrip(s) ==
    With(s, LAMBDA v :
        With({i \in 1..Len(v) : ~IsSpace(v[i])},
             LAMBDA keep : IF keep = {} THEN <<>>
                           ELSE SubSeq(v, 1, CHOOSE i \in keep : \A j \in keep : j <= i)))

\* str.strip()
Strip(s) == RStrip(LStrip(s))

\* ' '.join(s.split()): whitespace runs become one space, the ends are trimmed
RECURSIVE CollapseFrom(_, _)
CollapseFrom(v, i) ==
    IF i > Len(v) THEN <<>>
    ELSE IF ~IsSpace(v[i]) THEN <<v[i]>> \o CollapseFrom(v, i + 1)
    ELSE IF \A j \in i..Len(v) : IsSpace(v[j]) THEN <<>>
    ELSE IF IsSpace(v[i + 1]) THEN CollapseFrom(v, i + 1)
    ELSE <<32>> \o CollapseFrom(v, i + 1)

CollapseSpaces(s) == With(LStrip(s), LAMBDA v : CollapseFrom(v, 1))

IsPrefix(p, s) == Len(p) <= Len(s) /\ SubSeq(s, 1, Len(p)) = p

Drop(s, n) == SubSeq(s, n + 1, Len(s))

\* str.replace(old, new) from position i on: left to right, non-overlapping
RECURSIVE ReplaceFrom(_, _, _, _)
ReplaceFrom(v, i, old, new) ==
    IF i > Len(v) THEN <<>>
    ELSE IF i + Len(old) - 1 <= Len(v) /\ SubSeq(v, i, i + Len(old) - 1) = old
    THEN new \o ReplaceFrom(v, i + Len(old), old, new)
    ELSE <<v[i]>> \o ReplaceFrom(v, i + 1, old, new)

Replace(s, old, new) == With(s, LAMBDA v : ReplaceFrom(v, 1, old, new))

(***************************************************************************)
(* AddressMatcher._normalize_text                                          *)
(***************************************************************************)
\* the alternation of both regular expressions, in its order:
\* "г.", "город", "с.", "село", "пос.", "посёлок", "ул.", "улица", "пр.",
\* "проспект", "мкр.", "микрорайон"
AffixTokens ==
    << <<1075, 46>>,
       <<1075, 1086, 1088, 1086, 1076>>,
       <<1089, 46>>,
       <<1089, 1077, 1083, 1086>>,
       <<1087, 1086, 1089, 46>>,
       <<1087, 1086, 1089, 1105, 1083, 1086, 1082>>,
       <<1091, 1083, 46>>,
       <<1091, 1083, 1080, 1094, 1072>>,
       <<1087, 1088, 46>>,
       <<1087, 1088, 1086, 1089, 1087, 1077, 1082, 1090>>,
       <<1084, 1082, 1088, 46>>,
       <<1084, 1080, 1082, 1088, 1086, 1088, 1072, 1081, 1086, 1085>> >>

\* re.sub(r'^(tokens)\s*', '', text): the first alternative that matches at
\* the start is removed together with the whitespace after it
StripPrefix(text) ==
    With(text, LAMBDA v :
        With({t \in 1..Len(AffixTokens) : IsPrefix(AffixTokens[t], v)},
             LAMBDA hits :
                 IF hits = {} THEN v
                 ELSE LStrip(Drop(v, Len(AffixTokens[CHOOSE x \in hits :
                                                        \A y \in hits : x <= y]))))) 

\* re.sub(r'\s*(tokens)$', '', text): the leftmost position from which the
\* rest of the text is whitespace followed by exactly one token
StripSuffix(text) ==
    With(text, LAMBDA v :
        With({i \in 1..Len(v) :
                 \E rest \in {LStrip(Drop(v, i - 1))} :
                     \E t \in 1..Len(AffixTokens) : AffixTokens[t] = rest},
             LAMBDA hits :
                 IF hits = {} THEN v
                 ELSE SubSeq(v, 1, (CHOOSE x \in hits : \A y \in hits : x <= y) - 1)))

\* "проспект" -> "пр", "улица" -> "ул", "микрорайон" -> "мкр",
\* "переулок" -> "пер", "бульвар" -> "бул", in the dict's order
replacements ==
    << << <<1087, 1088, 1086, 1089, 1087, 1077, 1082, 1090>>, <<1087, 1088>> >>,
       << <<1091, 1083, 1080, 1094, 1072>>, <<1091, 1083>> >>,
       << <<1084, 1080, 1082, 1088, 1086, 1088, 1072, 1081, 1086, 1085>>,
          <<1084, 1082, 1088>> >>,
       << <<1087, 1077, 1088, 1077, 1091, 1083, 1086, 1082>>, <<1087, 1077, 1088>> >>,
       << <<1073, 1091, 1083, 1100, 1074, 1072, 1088>>, <<1073, 1091, 1083>> >> >>

RECURSIVE ReplaceAll(_, _)
ReplaceAll(text, k) ==
    IF k > Len(replacements) THEN text
    ELSE With(Replace(text, replacements[k][1], replacements[k][2]),
              LAMBDA replaced : ReplaceAll(replaced, k + 1))

_normalize_text(text) ==
    With(text, LAMBDA v :
        IF v = <<>> THEN <<>>
        ELSE Strip(ReplaceAll(StripSuffix(StripPrefix(CollapseSpaces(Strip(Lower(v))))), 1)))

(***************************************************************************)
(* difflib.SequenceMatcher(None, a, b).ratio(), as used at matcher.py:317. *)
(* No element is junk; autojunk is on, so in a text b of 200 elements or   *)
(* more the popular elements start no block.                               *)
(* Positions are 1-based and the ranges alo..ahi, blo..bhi inclusive.      *)
(***************************************************************************)
\* __chain_b: x is popular in b when b has at least 200 elements and x is
\* more than len(b) // 100 + 1 of them; b2j has no entry for it
IsPopular(b, x) ==
    /\ Len(b) >= 200
    /\ Cardinality({j \in 1..Len(b) : b[j] = x}) > (Len(b) \div 100) + 1

\* length of the common block that ends at a[i], b[j] (j2len of
\* find_longest_match); a popular b[j] has no cell
RECURSIVE CommonLen(_, _, _, _, _, _)
CommonLen(a, b, i, j, alo, blo) ==
    IF a[i] # b[j] THEN 0
    ELSE IF IsPopular(b, b[j]) THEN 0
    ELSE IF i = alo \/ j = blo THEN 1
    ELSE 1 + CommonLen(a, b, i - 1, j - 1, alo, blo)

\* the block of size best that starts earliest in a, and of those the one
\* that starts earliest in b (k maps the cells to their CommonLen)
EarliestBlock(k, best) ==
    With({c \in DOMAIN k : k[c] = best},
         LAMBDA ends :
             With(CHOOSE x \in {c[1] : c \in ends} : \A y \in {c[1] : c \in ends} : x <= y,
                  LAMBDA ci :
                      With(CHOOSE x \in {c[2] : c \in {d \in ends : d[1] = ci}} :
                               \A y \in {c[2] : c \in {d \in ends : d[1] = ci}} : x <= y,
                           LAMBDA cj : [i |-> ci - best + 1, j |-> cj - best + 1,
                                        size |-> best])))

\* the two loops after the scan: the block m grows to the left and then to
\* the right over equal elements, popular ones included
ExtendBlock(a, b, m, alo, ahi, blo, bhi) ==
    With(CHOOSE n \in 0..(m.i - alo) :
             /\ \A d \in 1..n : m.i - d >= alo /\ m.j - d >= blo /\ a[m.i - d] = b[m.j - d]
             /\ ~(m.i - n - 1 >= alo /\ m.j - n - 1 >= blo /\ a[m.i - n - 1] = b[m.j - n - 1]),
         LAMBDA left :
             With(CHOOSE n \in 0..(ahi + 1 - alo) :
                      /\ \A d \in 0..(n - 1) :
                             /\ m.i + m.size + d <= ahi
                             /\ m.j + m.size + d <= bhi
                             /\ a[m.i + m.size + d] = b[m.j + m.size + d]
                      /\ ~(/\ m.i + m.size + n <= ahi
                           /\ m.j + m.size + n <= bhi
                           /\ a[m.i + m.size + n] = b[m.j + m.size + n]),
                  LAMBDA right : [i |-> m.i - left, j |-> m.j - left,
                                  size |-> m.size + left + right]))

\* find_longest_match: the longest common block the scan finds; of those the
\* one that starts earliest in a, and of those the one that starts earliest
\* in b; then extended
FindLongestMatch(a, b, alo, ahi, blo, bhi) ==
    With([c \in (alo..ahi) \X (blo..bhi) |-> CommonLen(a, b, c[1], c[2], alo, blo)],
         LAMBDA k :
             With(IF DOMAIN k = {} THEN 0
                  ELSE k[CHOOSE c \in DOMAIN k : \A d \in DOMAIN k : k[d] <= k[c]],
                  LAMBDA best :
                      ExtendBlock(a, b,
                                  IF best = 0 THEN [i |-> alo, j |-> blo, size |-> 0]
                                  ELSE EarliestBlock(k, best),
                                  alo, ahi, blo, bhi)))

\* get_matching_blocks: the sizes of the block found and of the blocks found
\* to its left and to its right, summed
RECURSIVE MatchedCount(_, _, _, _, _, _)
MatchedCount(a, b, alo, ahi, blo, bhi) ==
    With(FindLongestMatch(a, b, alo, ahi, blo, bhi),
         LAMBDA m :
             IF m.size = 0 THEN 0
             ELSE m.size
                  + (IF alo < m.i /\ blo < m.j
                     THEN MatchedCount(a, b, alo, m.i - 1, blo, m.j - 1) ELSE 0)
                  + (IF m.i + m.size <= ahi /\ m.j + m.size <= bhi
                     THEN MatchedCount(a, b, m.i + m.size, ahi, m.j + m.size, bhi) ELSE 0))

\* ratio(): 2.0 * matches / (len(a) + len(b))
Ratio(a, b) ==
    With(<<a, b>>, LAMBDA p :
        IF Len(p[1]) + Len(p[2]) = 0 THEN FOne
        ELSE FRat(2 * MatchedCount(p[1], p[2], 1, Len(p[1]), 1, Len(p[2])),
                  Len(p[1]) + Len(p[2])))

\* variant: the guard for empty texts is missing
_calculate_similarity_unguarded(text1, text2) ==
    With(<<text1, text2>>, LAMBDA p :
        IF p[1] = p[2] THEN FOne ELSE Ratio(p[1], p[2]))

_calculate_similarity(text1, text2) ==
    With(<<text1, text2>>, LAMBDA p :
        IF p[1] = <<>> \/ p[2] = <<>> THEN FZero
        ELSE IF p[1] = p[2] THEN FOne
        ELSE Ratio(p[1], p[2]))

(***************************************************************************)
(* House numbers                                                           *)
(***************************************************************************)
\* Python's None; every optional value of the model is a record
None == [none |-> TRUE]

\* re.search(r'\d+', house_str): the first run of digits
\* None, or the match as [group |-> digits]
_extract_house_number(house_str) ==
    With(house_str, LAMBDA v :
        With({i \in 1..Len(v) : IsDigit(v[i])},
             LAMBDA digits :
                 IF digits = {} THEN None
                 ELSE With(CHOOSE i \in digits : \A j \in digits : i <= j,
                           LAMBDA first :
                               [group |-> SubSeq(v, first,
                                    CHOOSE e \in first..Len(v) :
                                        /\ \A j \in first..e : j \in digits
                                        /\ (e + 1) \notin digits)])))

F09 == FRat(9, 10)

\* variant: the numeric parts are compared before the whole texts
_calculate_house_similarity_number_first(house1, house2) ==
    With(<<house1, house2>>, LAMBDA p :
        IF p[1] = <<>> \/ p[2] = <<>> THEN FZero
        ELSE With(<<_extract_house_number(p[1]), _extract_house_number(p[2])>>,
                  LAMBDA num :
                      IF num[1] # None /\ num[2] # None /\ num[1] = num[2] THEN F09
                      ELSE IF Lower(Strip(p[1])) = Lower(Strip(p[2])) THEN FOne
                      ELSE _calculate_similarity(p[1], p[2])))

_calculate_house_similarity(house1, house2) ==
    With(<<house1, house2>>, LAMBDA p :
        IF p[1] = <<>> \/ p[2] = <<>> THEN FZero
        ELSE IF Lower(Strip(p[1])) = Lower(Strip(p[2])) THEN FOne
        ELSE With(<<_extract_house_number(p[1]), _extract_house_number(p[2])>>,
                  LAMBDA num :
                      IF num[1] # None /\ num[2] # None /\ num[1] = num[2] THEN F09
                      ELSE _calculate_similarity(p[1], p[2])))

(***************************************************************************)
(* Configuration (src/config.py) and literals of the matcher               *)
(***************************************************************************)
EXCEL_START_ROW == 8

SETTLEMENT_MATCH_THRESHOLD == FRat(9, 10)

\* variant: the partial threshold set to 0.3
PARTIAL_MATCH_THRESHOLD_low == FRat(3, 10)

PARTIAL_MATCH_THRESHOLD == FRat(4, 10)

\* variant: the street weighs one half
STREET_WEIGHT_half == FRat(1, 2)

STREET_WEIGHT == FRat(7, 10)

HOUSE_WEIGHT == FRat(3, 10)

\* the result statuses 'Да', 'Проверить', 'Нет'
StatusYes == "Da"

StatusCheck == "Proverit"

StatusNo == "Net"

(***************************************************************************)
(* Building the index: AddressMatcher.__init__ / _prepare_search_cache.    *)
(* A dict is a sequence of <<key, value>> pairs in insertion order.        *)
(***************************************************************************)
HasKey(dict, key) == \E i \in 1..Len(dict) : dict[i][1] = key

\* variant: the offices replace the bucket instead of extending it
CacheExtend_replacing(cache, key, offices) ==
    With(<<IF HasKey(cache, key) THEN cache ELSE Append(cache, <<key, <<>>>>), key>>,
         LAMBDA p : [i \in 1..Len(p[1]) |->
                        IF p[1][i][1] = p[2] THEN <<p[2], offices>> ELSE p[1][i]])

\* settlement_cache[key].extend(offices), creating the empty list first
CacheExtend(cache, key, offices) ==
    With(<<IF HasKey(cache, key) THEN cache ELSE Append(cache, <<key, <<>>>>), key>>,
         LAMBDA p : [i \in 1..Len(p[1]) |->
                        IF p[1][i][1] = p[2] THEN <<p[2], p[1][i][2] \o offices>>
                        ELSE p[1][i]])

RECURSIVE PrepareFrom(_, _, _)
PrepareFrom(data, i, cache) ==
    IF i > Len(data) THEN cache
    ELSE With(_normalize_text(data[i][1]),
              LAMBDA normalized :
                  With(CacheExtend(cache, normalized, data[i][2]),
                       LAMBDA extended : PrepareFrom(data, i + 1, extended)))

_prepare_search_cache(data) == With(data, LAMBDA d : PrepareFrom(d, 1, <<>>))

(***************************************************************************)
(* Settlement search                                                       *)
(***************************************************************************)
\* list.sort(key=score, reverse=True): stable, equal scores keep their order
RECURSIVE InsertByScore(_, _)
InsertByScore(sorted, x) ==
    IF sorted = <<>> THEN <<x>>
    ELSE IF FLt(Head(sorted).score, x.score) THEN <<x>> \o sorted
    ELSE <<Head(sorted)>> \o InsertByScore(Tail(sorted), x)

RECURSIVE SortByScore(_, _)
SortByScore(matches, sorted) ==
    IF matches = <<>> THEN sorted
    ELSE With(InsertByScore(sorted, Head(matches)),
              LAMBDA inserted : SortByScore(Tail(matches), inserted))

\* variant: any bucket with a positive similarity is a candidate
IsSettlementMatch_positive(similarity) == FGt(similarity, FZero)

\* variant: a bucket is a candidate from a similarity of 0.1 on
IsSettlementMatch_lenient(similarity) == FGe(similarity, FRat(1, 10))

\* variant: a bucket scoring exactly the threshold is not a candidate
IsSettlementMatch_strict(similarity) == FGt(similarity, SETTLEMENT_MATCH_THRESHOLD)

\* variant: every bucket is a candidate
IsSettlementMatch_always(similarity) == FGe(similarity, FZero)

\* matcher.py 130: similarity >= config.SETTLEMENT_MATCH_THRESHOLD
IsSettlementMatch(similarity) == FGe(similarity, SETTLEMENT_MATCH_THRESHOLD)

RECURSIVE MatchesFrom(_, _, _)
MatchesFrom(cache, normalized_input, i) ==
    IF i > Len(cache) THEN <<>>
    ELSE With(_calculate_similarity(normalized_input, cache[i][1]),
              LAMBDA similarity :
                  (IF IsSettlementMatch(similarity)
                   THEN <<[name |-> cache[i][1], offices |-> cache[i][2],
                           score |-> similarity]>>
                   ELSE <<>>)
                  \o MatchesFrom(cache, normalized_input, i + 1))

_find_matching_settlements(cache, settlement_name) ==
    With(<<cache, _normalize_text(settlement_name)>>,
         LAMBDA p : With(MatchesFrom(p[1], p[2], 1),
                         LAMBDA matches : SortByScore(matches, <<>>)))

(***************************************************************************)
(* Street and house scoring                                                *)
(***************************************************************************)
\* office.get(key, '')
Get(office, key) == IF key \in DOMAIN office THEN office[key] ELSE <<>>

\* str(KeyError('settlement'))
KeyErrorSettlement == "'settlement'"

\* total_score = settlement_score * 0.3 + street_similarity * STREET_WEIGHT
\*               + house_similarity * HOUSE_WEIGHT
TotalScore(settlement_score, street_similarity, house_similarity) ==
    FAdd(FAdd(FMul(settlement_score, F03),
              FMul(street_similarity, STREET_WEIGHT)),
         FMul(house_similarity, HOUSE_WEIGHT))

\* returns the score record, or [fault |-> message] when office['settlement']
\* raises KeyError while the details are formatted
_match_street_and_house(street, house, office, settlement_score) ==
    With(<<_calculate_similarity(_normalize_text(street),
                                 _normalize_text(Get(office, "street"))),
           _calculate_house_similarity(house, Get(office, "house"))>>,
         LAMBDA sim :
             IF "settlement" \notin DOMAIN office
             THEN [fault |-> KeyErrorSettlement]
             ELSE [score |-> TotalScore(settlement_score, sim[1], sim[2]),
                   street_similarity |-> sim[1],
                   house_similarity |-> sim[2],
                   details |-> [kind |-> "found",
                                settlement |-> office.settlement,
                                street |-> Get(office, "street"),
                                house |-> Get(office, "house"),
                                street_similarity |-> sim[1],
                                house_similarity |-> sim[2]]])

\* variant: a composite of exactly 0.9 is not enough for 'Да'
StatusOf_strict(total_score) ==
    With(total_score, LAMBDA t :
        IF FGt(t, F09) THEN StatusYes
        ELSE IF FGe(t, PARTIAL_MATCH_THRESHOLD) THEN StatusCheck
        ELSE StatusNo)

StatusOf(total_score) ==
    With(total_score, LAMBDA t :
        IF FGe(t, F09) THEN StatusYes
        ELSE IF FGe(t, PARTIAL_MATCH_THRESHOLD) THEN StatusCheck
        ELSE StatusNo)

_determine_status(best, data) ==
    [row_num |-> data.row_num,
     status  |-> StatusOf(best.total_score),
     details |-> best.details]

(***************************************************************************)
(* Reading a spreadsheet row: ExcelProcessor.read_address_row.             *)
(* A cell holds None, text or an integer.                                  *)
(***************************************************************************)
Text(s) == [text |-> s]

Number(n) == [number |-> n]

RECURSIVE Digits(_)
Digits(n) == IF n < 10 THEN <<48 + n>> ELSE Digits(n \div 10) \o <<48 + (n % 10)>>

\* str(value) of a cell value
Str(value) ==
    IF "number" \in DOMAIN value
    THEN (IF value.number < 0 THEN <<45>> \o Digits(0 - value.number)
          ELSE Digits(value.number))
    ELSE value.text

\* truth value of a cell value
Truthy(value) == value # None /\ value # Text(<<>>) /\ value # Number(0)

Clean(value) == IF Truthy(value) THEN Strip(Str(value)) ELSE <<>>

\* variant: a row without a settlement is not skipped
read_address_row_keeping_empty(sheet, n) ==
    With(sheet[n - EXCEL_START_ROW], LAMBDA row :
        IF ~(Truthy(row[1]) \/ Truthy(row[2]) \/ Truthy(row[3])) THEN None
        ELSE [row_num |-> n, settlement |-> Clean(row[1]),
              street |-> Clean(row[2]), house |-> Clean(row[3])])

\* None, or the address data of the row
read_address_row(sheet, n) ==
    With(sheet[n - EXCEL_START_ROW], LAMBDA row :
        IF ~(Truthy(row[1]) \/ Truthy(row[2]) \/ Truthy(row[3])) THEN None
        ELSE With(Clean(row[1]), LAMBDA settlement :
             IF settlement = <<>> THEN None
             ELSE [row_num |-> n, settlement |-> settlement,
                   street |-> Clean(row[2]), house |-> Clean(row[3])]))

(***************************************************************************)
(* Regular expressions of the HTML parser: a pattern is a sequence of      *)
(* nodes, matched as re does, greedy and backtracking, under re.IGNORECASE *)
(***************************************************************************)
\* re.IGNORECASE on str: the pairs <<c, d>> of different lower-case code
\* points that match each other besides their own case forms
CaseFixes ==
    { <<105, 305>>, <<115, 383>>, <<181, 956>>, <<305, 105>>, <<383, 115>>,
      <<837, 953>>, <<837, 8126>>, <<912, 8147>>, <<944, 8163>>, <<946, 976>>,
      <<949, 1013>>, <<952, 977>>, <<953, 837>>, <<953, 8126>>, <<954, 1008>>,
      <<956, 181>>, <<960, 982>>, <<961, 1009>>, <<962, 963>>, <<963, 962>>,
      <<966, 981>>, <<976, 946>>, <<977, 952>>, <<981, 966>>, <<982, 960>>,
      <<1008, 954>>, <<1009, 961>>, <<1013, 949>>, <<1074, 7296>>,
      <<1076, 7297>>, <<1086, 7298>>, <<1089, 7299>>, <<1090, 7300>>,
      <<1090, 7301>>, <<1098, 7302>>, <<1123, 7303>>, <<7296, 1074>>,
      <<7297, 1076>>, <<7298, 1086>>, <<7299, 1089>>, <<7300, 1090>>,
      <<7300, 7301>>, <<7301, 1090>>, <<7301, 7300>>, <<7302, 1098>>,
      <<7303, 1123>>, <<7304, 42571>>, <<7777, 7835>>, <<7835, 7777>>,
      <<8126, 837>>, <<8126, 953>>, <<8147, 912>>, <<8163, 944>>,
      <<42571, 7304>>, <<64261, 64262>>, <<64262, 64261>> }

\* a literal code point l of a pattern against the code point c of the text,
\* under re.IGNORECASE: the lower-case form of c is l or corresponds to it
MatchesIgnoreCase(c, l) ==
    \E lo \in {LowerChar(c)} : lo = l \/ <<l, lo>> \in CaseFixes

\* a literal; the pattern's letters are lower-case
Lit(s) == [t |-> "lit", s |-> s]

\* a greedy repetition of a character class, at least min times:
\* \s ("space"), [^,] ("notcomma"), . ("any")
Cls(k, min) == [t |-> "cls", k |-> k, min |-> min]

\* (?:r)?
Opt(r) == [t |-> "opt", r |-> r]

\* (?:a|b|c)
Alt(rs) == [t |-> "alt", rs |-> rs]

\* the opening and the closing parenthesis of capture group n
Open(n) == [t |-> "open", n |-> n]

Close(n) == [t |-> "close", n |-> n]

InClass(c, k) ==
    IF k = "space" THEN IsSpace(c)
    ELSE IF k = "notcomma" THEN c # 44
    ELSE c # 10

\* the length of the longest run of class k from position at on
RunLen(text, at, k) ==
    With({i \in at..Len(text) : ~InClass(text[i], k)},
         LAMBDA stops : IF stops = {} THEN Len(text) + 1 - at
                        ELSE (CHOOSE i \in stops : \A j \in stops : i <= j) - at)

NoMatch == [ok |-> FALSE]

NoGroups == [n \in 1..3 |-> [from |-> 1, to |-> 0]]

\* the first way, in re's order of trial, to match the nodes from position
\* at on: its groups and the position after it
RECURSIVE Match(_, _, _, _)
RECURSIVE MatchCls(_, _, _, _, _, _)
RECURSIVE MatchAlt(_, _, _, _, _, _)
Match(nodes, text, at, groups) ==
    IF nodes = <<>> THEN [ok |-> TRUE, groups |-> groups, end |-> at]
    ELSE IF Head(nodes).t = "lit"
    THEN IF /\ at + Len(Head(nodes).s) - 1 <= Len(text)
            /\ \A k \in 1..Len(Head(nodes).s) :
                   MatchesIgnoreCase(text[at + k - 1], Head(nodes).s[k])
         THEN Match(Tail(nodes), text, at + Len(Head(nodes).s), groups)
         ELSE NoMatch
    ELSE IF Head(nodes).t = "cls"
    THEN MatchCls(Tail(nodes), text, at, groups,
                  RunLen(text, at, Head(nodes).k), Head(nodes).min)
    ELSE IF Head(nodes).t = "opt"
    THEN With(Match(Head(nodes).r \o Tail(nodes), text, at, groups),
              LAMBDA taken : IF taken.ok THEN taken
                             ELSE Match(Tail(nodes), text, at, groups))
    ELSE IF Head(nodes).t = "alt"
    THEN MatchAlt(Head(nodes).rs, 1, Tail(nodes), text, at, groups)
    ELSE IF Head(nodes).t = "open"
    THEN Match(Tail(nodes), text, at,
               [groups EXCEPT ![Head(nodes).n] = [from |-> at, to |-> at - 1]])
    ELSE Match(Tail(nodes), text, at,
               [groups EXCEPT ![Head(nodes).n].to = at - 1])

\* the class taken as many times as the rest of the pattern allows: re takes
\* the longest run first and gives back one character at a time
MatchCls(rest, text, at, groups, run, min) ==
    With({k \in min..run : Match(rest, text, at + k, groups).ok},
         LAMBDA fits : IF fits = {} THEN NoMatch
                       ELSE Match(rest, text, at + (CHOOSE k \in fits : \A j \in fits : j <= k),
                                  groups))

\* the alternatives from left to right
MatchAlt(rs, i, rest, text, at, groups) ==
    IF i > Len(rs) THEN NoMatch
    ELSE With(Match(rs[i] \o rest, text, at, groups),
              LAMBDA taken : IF taken.ok THEN taken
                             ELSE MatchAlt(rs, i + 1, rest, text, at, groups))

\* re.search: the match at the leftmost position that has one
Search(nodes, text) ==
    With({at \in 1..(Len(text) + 1) : Match(nodes, text, at, NoGroups).ok},
         LAMBDA starts : IF starts = {} THEN NoMatch
                         ELSE Match(nodes, text, CHOOSE at \in starts : \A j \in starts : at <= j,
                                    NoGroups))

\* match.group(n)
Group(text, found, n) == SubSeq(text, found.groups[n].from, found.groups[n].to)

\* re.sub(r'^...', '', text): a match at the start of the text is removed
SubAtStart(nodes, text) ==
    With(Match(nodes, text, 1, NoGroups),
         LAMBDA found : IF found.ok THEN Drop(text, found.end - 1) ELSE text)

\* old in text
Contains(text, old) ==
    \E i \in 1..(Len(text) - Len(old) + 1) : SubSeq(text, i, i + Len(old) - 1) = old

(***************************************************************************)
(* HTMLParser                                                              *)
(***************************************************************************)
\* r'(?:г\.\s*)?([^,]+),\s*(?:ул\.|пр\.|мкр\.)\s*([^,]+),\s*(?:д\.\s*)?(.+)',
\* r'([^,]+),\s*(?:ул\.|пр\.|мкр\.)\s*([^,]+),\s*(.+)',
\* r'(?:г\.\s*)?([^,]+)\s+(?:ул\.|пр\.|мкр\.)\s*([^,]+)\s+(?:д\.\s*)?(.+)'
patterns ==
    << << Opt(<<Lit(<<1075, 46>>), Cls("space", 0)>>),
          Open(1),
          Cls("notcomma", 1),
          Close(1),
          Lit(<<44>>),
          Cls("space", 0),
          Alt(<<<<Lit(<<1091, 1083, 46>>)>>, <<Lit(<<1087, 1088, 46>>)>>, <<Lit(<<1084, 1082, 1088, 46>>)>>>>),
          Cls("space", 0),
          Open(2),
          Cls("notcomma", 1),
          Close(2),
          Lit(<<44>>),
          Cls("space", 0),
          Opt(<<Lit(<<1076, 46>>), Cls("space", 0)>>),
          Open(3),
          Cls("any", 1),
          Close(3) >>,
       << Open(1),
          Cls("notcomma", 1),
          Close(1),
          Lit(<<44>>),
          Cls("space", 0),
          Alt(<<<<Lit(<<1091, 1083, 46>>)>>, <<Lit(<<1087, 1088, 46>>)>>, <<Lit(<<1084, 1082, 1088, 46>>)>>>>),
          Cls("space", 0),
          Open(2),
          Cls("notcomma", 1),
          Close(2),
          Lit(<<44>>),
          Cls("space", 0),
          Open(3),
          Cls("any", 1),
          Close(3) >>,
       << Opt(<<Lit(<<1075, 46>>), Cls("space", 0)>>),
          Open(1),
          Cls("notcomma", 1),
          Close(1),
          Cls("space", 1),
          Alt(<<<<Lit(<<1091, 1083, 46>>)>>, <<Lit(<<1087, 1088, 46>>)>>, <<Lit(<<1084, 1082, 1088, 46>>)>>>>),
          Cls("space", 0),
          Open(2),
          Cls("notcomma", 1),
          Close(2),
          Cls("space", 1),
          Opt(<<Lit(<<1076, 46>>), Cls("space", 0)>>),
          Open(3),
          Cls("any", 1),
          Close(3) >> >>

\* r'^(г\.|город|с\.|село|пос\.|посёлок)\s*'
SettlementPrefix == << Alt(<<<<Lit(<<1075, 46>>)>>, <<Lit(<<1075, 1086, 1088, 1086, 1076>>)>>, <<Lit(<<1089, 46>>)>>, <<Lit(<<1089, 1077, 1083, 1086>>)>>, <<Lit(<<1087, 1086, 1089, 46>>)>>, <<Lit(<<1087, 1086, 1089, 1105, 1083, 1086, 1082>>)>>>>),
                       Cls("space", 0) >>

\* r'^(ул\.|пр\.|мкр\.)'
StreetPrefix == << Alt(<<<<Lit(<<1091, 1083, 46>>)>>, <<Lit(<<1087, 1088, 46>>)>>, <<Lit(<<1084, 1082, 1088, 46>>)>>>>) >>

\* r'^(д\.|дом)\s*'
HousePrefix == << Alt(<<<<Lit(<<1076, 46>>)>>, <<Lit(<<1076, 1086, 1084>>)>>>>), Cls("space", 0) >>

\* X.strip() if X else None
StripOrNone(text) == IF text = <<>> THEN None ELSE Text(Strip(text))

_clean_settlement_name(settlement) ==
    With(SubAtStart(SettlementPrefix, Strip(settlement)), LAMBDA cleaned : StripOrNone(cleaned))

\* "пр. " for 'проспект' or 'avenue', "мкр. " for 'микрорайон' or 'мкр', else
\* "ул. ", unless the street begins with one of the three already
_clean_street_name(street) ==
    With(Strip(street), LAMBDA v :
        IF Match(StreetPrefix, v, 1, NoGroups).ok THEN Text(v)
        ELSE IF Contains(Lower(v), <<1087, 1088, 1086, 1089, 1087, 1077, 1082, 1090>>) \/ Contains(Lower(v), <<97, 118, 101, 110, 117, 101>>)
        THEN Text(<<1087, 1088, 46, 32>> \o v)
        ELSE IF Contains(Lower(v), <<1084, 1080, 1082, 1088, 1086, 1088, 1072, 1081, 1086, 1085>>) \/ Contains(Lower(v), <<1084, 1082, 1088>>)
        THEN Text(<<1084, 1082, 1088, 46, 32>> \o v)
        ELSE Text(<<1091, 1083, 46, 32>> \o v))

_clean_house_number(house) ==
    With(SubAtStart(HousePrefix, Strip(house)), LAMBDA cleaned : StripOrNone(cleaned))

\* the fields of one match, cleaned
CleanedFields(text, found) ==
    [settlement |-> _clean_settlement_name(Strip(Group(text, found, 1))),
     street     |-> _clean_street_name(Strip(Group(text, found, 2))),
     house      |-> _clean_house_number(Strip(Group(text, found, 3)))]

\* the patterns are tried in order; the first whose three cleaned fields are
\* all non-empty gives the address
RECURSIVE ParseWith(_, _)
ParseWith(clean_address, k) ==
    IF k > Len(patterns) THEN None
    ELSE With(Search(patterns[k], clean_address), LAMBDA found :
           IF ~found.ok THEN ParseWith(clean_address, k + 1)
           ELSE With(CleanedFields(clean_address, found), LAMBDA f :
                  IF Truthy(f.settlement) /\ Truthy(f.street) /\ Truthy(f.house)
                  THEN [settlement |-> f.settlement.text, street |-> f.street.text,
                        house |-> f.house.text]
                  ELSE ParseWith(clean_address, k + 1)))

_parse_address_string(address_text) ==
    With(CollapseSpaces(address_text), LAMBDA clean_address : ParseWith(clean_address, 1))

\* a container is [kind |-> "no_address_block"], [kind |-> "raises"] (the
\* extraction raises an exception) or [kind |-> "address", text |-> ...]
_extract_office_data(container) ==
    IF container.kind # "address" THEN None
    ELSE IF container.text = <<>> THEN None
    ELSE With(_parse_address_string(container.text), LAMBDA parsed_address :
           IF parsed_address = None THEN None
           ELSE [full_address |-> container.text,
                 settlement   |-> parsed_address.settlement,
                 street       |-> parsed_address.street,
                 house        |-> parsed_address.house])

_add_office_to_database(database, office_data) ==
    With(<<IF HasKey(database, Lower(office_data.settlement)) THEN database
           ELSE Append(database, <<Lower(office_data.settlement), <<>>>>),
           Lower(office_data.settlement), office_data>>,
         LAMBDA p : [i \in 1..Len(p[1]) |->
                        IF p[1][i][1] = p[2] THEN <<p[2], Append(p[1][i][2], p[3])>>
                        ELSE p[1][i]])

(***************************************************************************)
(* Pages and containers: a page is readable or not and holds the          *)
(* containers found in it                                                  *)
(***************************************************************************)
\* "г. Алматы, ул. Абая, д. 150"
T_addr_full == <<1075, 46, 32, 1040, 1083, 1084, 1072, 1090, 1099, 44, 32, 1091, 1083, 46, 32, 1040, 1073, 1072, 1103, 44, 32, 1076, 46, 32, 49, 53, 48>>

\* "АЛМАТЫ, пр. Достык, 12А"
T_addr_upper == <<1040, 1051, 1052, 1040, 1058, 1067, 44, 32, 1087, 1088, 46, 32, 1044, 1086, 1089, 1090, 1099, 1082, 44, 32, 49, 50, 1040>>

\* "Астана ул. Мира 5"
T_addr_no_commas == <<1040, 1089, 1090, 1072, 1085, 1072, 32, 1091, 1083, 46, 32, 1052, 1080, 1088, 1072, 32, 53>>

\* "Алматы Абая 150"
T_addr_no_marker == <<1040, 1083, 1084, 1072, 1090, 1099, 32, 1040, 1073, 1072, 1103, 32, 49, 53, 48>>

\* "г. Алматы, ул. Абая, д."
T_addr_no_house == <<1075, 46, 32, 1040, 1083, 1084, 1072, 1090, 1099, 44, 32, 1091, 1083, 46, 32, 1040, 1073, 1072, 1103, 44, 32, 1076, 46>>

\* "г. , ул. Абая, 5"
T_addr_no_settlement == <<1075, 46, 32, 44, 32, 1091, 1083, 46, 32, 1040, 1073, 1072, 1103, 44, 32, 53>>

\* "г. город, ул. Абая, 5"
T_addr_second_pattern == <<1075, 46, 32, 1075, 1086, 1088, 1086, 1076, 44, 32, 1091, 1083, 46, 32, 1040, 1073, 1072, 1103, 44, 32, 53>>

Address(text) == [kind |-> "address", text |-> text]

NoAddressBlock == [kind |-> "no_address_block"]

Raising == [kind |-> "raises"]

\* containers that give an office: all fields present; upper-case settlement
\* and "пр."; no commas; the first pattern leaves the settlement empty and the
\* second one gives "город"
GoodContainers == {Address(T_addr_full), Address(T_addr_upper), Address(T_addr_no_commas),
                   Address(T_addr_second_pattern)}

\* containers that give none: no pattern matches; the house, the settlement
\* is empty after cleaning; no address block; the extraction raises
BadContainers == {Address(T_addr_no_marker), Address(T_addr_no_house),
                  Address(T_addr_no_settlement), NoAddressBlock, Raising}

Readable(containers) == [readable |-> TRUE, containers |-> containers]

\* a page that cannot be opened or read
Unreadable == [readable |-> FALSE, containers |-> <<>>]

\* pages: unreadable, without containers, with one container, with a failing
\* container before a good one, with a failing container between two offices
\* of one settlement
FilePool ==
    {Unreadable, Readable(<<>>)}
    \cup {Readable(<<c>>) : c \in GoodContainers \cup BadContainers}
    \cup {Readable(<<b, Address(T_addr_full)>>) : b \in BadContainers}
    \cup {Readable(<<Address(T_addr_full), b, Address(T_addr_upper)>>) :
             b \in {Raising, Address(T_addr_no_house)}}

MaxFiles == 2

\* the exception _extract_office_data leaves with
Raised == [exception |-> TRUE]

\* html_parser.py 69-77: the containers of one page, in order; a container
\* whose extraction raises or gives no office adds nothing
RECURSIVE ParseContainers(_, _)
ParseContainers(containers, database) ==
    IF containers = <<>> THEN database
    ELSE With(IF Head(containers) = Raising THEN Raised
              ELSE _extract_office_data(Head(containers)),
              LAMBDA office_data :
                  ParseContainers(Tail(containers),
                                  IF office_data = Raised \/ office_data = None
                                  THEN database
                                  ELSE _add_office_to_database(database, office_data)))

\* html_parser.py 36-43: the pages in order; a page that cannot be read is
\* logged and skipped
RECURSIVE ParseFiles(_, _)
ParseFiles(html_files, database) ==
    IF html_files = <<>> THEN database
    ELSE ParseFiles(Tail(html_files),
                    IF Head(html_files).readable
                    THEN ParseContainers(Head(html_files).containers, database)
                    ELSE database)

\* HTMLParser().parse_html_files() for the pages html_files: the database
\* {settlement.lower(): [office, ...]}, empty when there is no page
parse_html_files(html_files) == ParseFiles(html_files, <<>>)

(***************************************************************************)
(* Inputs: texts, reference databases and sheets                           *)
(***************************************************************************)
\* "Алматы"
T_Almaty == <<1040, 1083, 1084, 1072, 1090, 1099>>

\* "алматы"
T_almaty == <<1072, 1083, 1084, 1072, 1090, 1099>>

\* "алматы город"
T_almaty_gorod == <<1072, 1083, 1084, 1072, 1090, 1099, 32, 1075, 1086, 1088, 1086, 1076>>

\* "Алматы город"
T_Almaty_gorod == <<1040, 1083, 1084, 1072, 1090, 1099, 32, 1075, 1086, 1088, 1086, 1076>>

\* "г. Алматы"
T_g_Almaty == <<1075, 46, 32, 1040, 1083, 1084, 1072, 1090, 1099>>

\* "almaty"
T_latin_almaty == <<97, 108, 109, 97, 116, 121>>

\* "ul abaya"
T_ul_abaya_latin == <<117, 108, 32, 97, 98, 97, 121, 97>>

\* "Петропавловск"
T_Petropavlovsk == <<1055, 1077, 1090, 1088, 1086, 1087, 1072, 1074, 1083, 1086, 1074, 1089, 1082>>

\* "петропавловск"
T_petropavlovsk == <<1087, 1077, 1090, 1088, 1086, 1087, 1072, 1074, 1083, 1086, 1074, 1089, 1082>>

\* "Петропавловка"
T_Petropavlovka == <<1055, 1077, 1090, 1088, 1086, 1087, 1072, 1074, 1083, 1086, 1074, 1082, 1072>>

\* "петропавловка"
T_petropavlovka == <<1087, 1077, 1090, 1088, 1086, 1087, 1072, 1074, 1083, 1086, 1074, 1082, 1072>>

\* "Астана"
T_Astana == <<1040, 1089, 1090, 1072, 1085, 1072>>

\* "астана"
T_astana == <<1072, 1089, 1090, 1072, 1085, 1072>>

\* "Тараз"
T_Taraz == <<1058, 1072, 1088, 1072, 1079>>

\* "тараз"
T_taraz == <<1090, 1072, 1088, 1072, 1079>>

\* "Семей"
T_Semey == <<1057, 1077, 1084, 1077, 1081>>

\* "семей"
T_semey == <<1089, 1077, 1084, 1077, 1081>>

\* "Шымкент"
T_Shymkent == <<1064, 1099, 1084, 1082, 1077, 1085, 1090>>

\* "ул. Абая"
T_ul_Abaya == <<1091, 1083, 46, 32, 1040, 1073, 1072, 1103>>

\* "пр. Достык"
T_pr_Dostyk == <<1087, 1088, 46, 32, 1044, 1086, 1089, 1090, 1099, 1082>>

\* "ул. Мира"
T_ul_Mira == <<1091, 1083, 46, 32, 1052, 1080, 1088, 1072>>

\* "Абая"
T_Abaya == <<1040, 1073, 1072, 1103>>

\* "Аба"
T_Aba == <<1040, 1073, 1072>>

\* "Фрунзе"
T_Frunze == <<1060, 1088, 1091, 1085, 1079, 1077>>

\* "Ленина"
T_Lenina == <<1051, 1077, 1085, 1080, 1085, 1072>>

\* "Достыева"
T_Dostyeva == <<1044, 1086, 1089, 1090, 1099, 1077, 1074, 1072>>

\* "Строительный туп"
T_Stroitelny_tup == <<1057, 1090, 1088, 1086, 1080, 1090, 1077, 1083, 1100, 1085, 1099, 1081, 32, 1090, 1091, 1087>>

\* "150"
T_150 == <<49, 53, 48>>

\* "12А"
T_12A == <<49, 50, 1040>>

\* "1"
T_1 == <<49>>

\* "5"
T_5 == <<53>>

\* "7"
T_7 == <<55>>

\* "7А"
T_7A == <<55, 1040>>

\* "9"
T_9 == <<57>>

\* "А45"
T_A45 == <<1040, 52, 53>>

\* "корпус 12, литер А"
T_korpus == <<1082, 1086, 1088, 1087, 1091, 1089, 32, 49, 50, 44, 32, 1083, 1080, 1090, 1077, 1088, 32, 1040>>

\* "  "
T_blank == <<32, 32>>


\* "Алматы, ул. Абая, 150"
T_addr_almaty_abaya == <<1040, 1083, 1084, 1072, 1090, 1099, 44, 32, 1091, 1083, 46, 32, 1040, 1073, 1072, 1103, 44, 32, 49, 53, 48>>

\* "Алматы, пр. Достык, 12А"
T_addr_almaty_dostyk == <<1040, 1083, 1084, 1072, 1090, 1099, 44, 32, 1087, 1088, 46, 32, 1044, 1086, 1089, 1090, 1099, 1082, 44, 32, 49, 50, 1040>>

\* "Алматы город, ул. Абая, 150"
T_addr_almaty_gorod == <<1040, 1083, 1084, 1072, 1090, 1099, 32, 1075, 1086, 1088, 1086, 1076, 44, 32, 1091, 1083, 46, 32, 1040, 1073, 1072, 1103, 44, 32, 49, 53, 48>>

\* "Петропавловск, ул. Мира, 1"
T_addr_petropavlovsk == <<1055, 1077, 1090, 1088, 1086, 1087, 1072, 1074, 1083, 1086, 1074, 1089, 1082, 44, 32, 1091, 1083, 46, 32, 1052, 1080, 1088, 1072, 44, 32, 49>>

\* "Петропавловка, ул. Абая, 5"
T_addr_petropavlovka == <<1055, 1077, 1090, 1088, 1086, 1087, 1072, 1074, 1083, 1086, 1074, 1082, 1072, 44, 32, 1091, 1083, 46, 32, 1040, 1073, 1072, 1103, 44, 32, 53>>

\* "Астана, ул. Абая, 1"
T_addr_astana == <<1040, 1089, 1090, 1072, 1085, 1072, 44, 32, 1091, 1083, 46, 32, 1040, 1073, 1072, 1103, 44, 32, 49>>

\* "Семей, ул. Мира, 7А"
T_addr_semey == <<1057, 1077, 1084, 1077, 1081, 44, 32, 1091, 1083, 46, 32, 1052, 1080, 1088, 1072, 44, 32, 55, 1040>>

\* the pages main() may find under regions_html: none; pages that give no
\* office (unreadable, no pattern matches, no address block); the offices of
\* seven settlements on two pages around an unreadable one, with a container
\* whose extraction raises and one that does not parse among them; one page
\* with two spellings of one settlement
HtmlFiles ==
    {<<>>,
     <<Unreadable>>,
     <<Readable(<<Address(T_addr_no_marker), NoAddressBlock>>)>>,
     <<Readable(<<Address(T_addr_almaty_abaya), Raising, Address(T_addr_almaty_dostyk),
                  Address(T_addr_almaty_gorod)>>),
       Unreadable,
       Readable(<<Address(T_addr_petropavlovsk), Address(T_addr_petropavlovka),
                  Address(T_addr_astana), Address(T_addr_no_house),
                  Address(T_addr_astana), Address(T_addr_semey)>>)>>,
     <<Readable(<<Address(T_addr_full), Address(T_addr_upper)>>)>>}

\* main.py 20: the database parse_html_files returns for each of them
Parsed == [html_files \in HtmlFiles |-> parse_html_files(html_files)]

\* an office record as a caller of AddressMatcher supplies it: the keys the
\* matcher reads
Office(settlement, street, house) ==
    [settlement |-> settlement, street |-> street, house |-> house]

\* an office record without the 'settlement' key
OfficeNoSettlement(street, house) == [street |-> street, house |-> house]

\* the database of scenario A, in Latin script
DbLatin == << <<T_latin_almaty, <<Office(T_latin_almaty, T_ul_abaya_latin, T_150)>> >> >>

\* a database put together by a caller: two keys that normalize alike, a
\* record without 'settlement', a settlement without offices
DbCaller ==
    << <<T_almaty, <<Office(T_Almaty, T_ul_Abaya, T_150),
                     Office(T_Almaty, T_pr_Dostyk, T_12A)>> >>,
       <<T_almaty_gorod, <<Office(T_Almaty_gorod, T_ul_Abaya, T_150)>> >>,
       <<T_petropavlovsk, <<Office(T_Petropavlovsk, T_ul_Mira, T_1)>> >>,
       <<T_petropavlovka, <<Office(T_Petropavlovka, T_ul_Abaya, T_5)>> >>,
       <<T_astana, <<Office(T_Astana, T_ul_Abaya, T_1),
                     OfficeNoSettlement(T_ul_Abaya, T_1),
                     Office(T_Astana, T_ul_Abaya, T_1)>> >>,
       <<T_taraz, <<>> >>,
       <<T_semey, <<Office(T_Semey, T_ul_Mira, T_7A)>> >> >>

\* the databases AddressMatcher is constructed with by a caller
CallerDatabases == {DbLatin, DbCaller}

RowA == <<Text(T_Almaty), Text(T_Abaya), Number(150)>>

RowNearMiss == <<Text(T_g_Almaty), Text(T_Aba), None>>

RowC == <<Text(T_Almaty), Text(T_Frunze), Text(T_9)>>

RowNoSettlement == <<Text(T_Shymkent), Text(T_Abaya), Text(T_150)>>

RowEmpty == <<None, Text(T_Abaya), Text(T_150)>>

RowBlank == <<Text(T_blank), Text(T_Abaya), None>>

RowNone == <<None, None, None>>

RowExact09 == <<Text(T_Almaty), Text(T_Dostyeva), Text(T_A45)>>

RowExact04 == <<Text(T_Semey), Text(T_Stroitelny_tup), Text(T_korpus)>>

RowTwoBuckets == <<Text(T_Petropavlovsk), Text(T_Abaya), Number(5)>>

RowAstana == <<Text(T_Astana), Text(T_Abaya), Text(T_1)>>

RowTaraz == <<Text(T_Taraz), Text(T_Abaya), Text(T_1)>>

RowHouseDiffers == <<Text(T_Almaty), Text(T_Abaya), Text(T_7)>>

RowReview == <<Text(T_Almaty), Text(T_Lenina), Text(T_7)>>

RowStreetOnly == <<Text(T_Petropavlovsk), Text(T_Abaya), None>>

SingleRows == {RowA, RowNearMiss, RowC, RowNoSettlement, RowEmpty, RowBlank, RowNone,
               RowExact09, RowExact04, RowTwoBuckets, RowAstana, RowTaraz,
               RowHouseDiffers, RowReview, RowStreetOnly}

BatchRows == {RowA, RowC, RowEmpty, RowAstana, RowNoSettlement}

MaxRows == 2

\* one row of any kind, or up to MaxRows rows of the batch kinds
Sheets == {<<r>> : r \in SingleRows} \cup UNION {[1..n -> BatchRows] : n \in 0..MaxRows}

MaxCalls == 2

\* the address_data of the calls of match_address a caller makes: one call
\* of any kind, or up to MaxCalls calls out of four (confirmed, fault, empty
\* bucket, settlement not found)
CallLists ==
    {[k \in 1..Len(rows) |-> [row_num |-> k, settlement |-> Clean(rows[k][1]),
                              street |-> Clean(rows[k][2]), house |-> Clean(rows[k][3])]] :
        rows \in {<<r>> : r \in SingleRows}
                 \cup UNION {[1..n -> {RowA, RowAstana, RowTaraz, RowNoSettlement}] :
                               n \in 0..MaxCalls}}

(***************************************************************************)
(* State                                                                   *)
(***************************************************************************)
VARIABLES
    pc,                    \* main(): "parse_html", "load_workbook", "build_matcher",
                           \* "loop", "statistics", "done", "aborted"; a caller
                           \* of AddressMatcher: "new_matcher", "matcher"
    error,                 \* the except clause main() ended in, or "none"
    offices_data,          \* the reference database {settlement: [office, ...]}
    worksheet,             \* the data rows of the sheet (rows 9..max_row)
    settlement_cache,      \* AddressMatcher.settlement_cache
    row_num,               \* the loop variable of main()
    results,               \* main()'s results list
    output,                \* None, or [rows |-> what the saved file holds of the
                           \* results: row, status and, when written, details]
    rpc,                   \* match_address: "Start", "SettlementSearch",
                           \* "StreetHouseSearch", "Done"
    address_data,          \* the row being resolved, or None
    matching_settlements,  \* the candidates of the row being resolved
    pos,                   \* offices of the candidates scored so far
    best_match,
    best_score,
    scores,                \* the composite of each office scored for this row
    probe                  \* argument/result record of the pure-function runs

vars == <<pc, error, offices_data, worksheet, settlement_cache, row_num, results,
          output, rpc, address_data, matching_settlements, pos, best_match,
          best_score, scores, probe>>

mainVars == <<pc, error, offices_data, worksheet, settlement_cache, row_num, results,
              output>>

rowVars == <<rpc, address_data, matching_settlements, pos, best_match, best_score,
             scores>>

max_row == EXCEL_START_ROW + Len(worksheet)

\* the offices in the order the two nested loops of match_address visit them
RECURSIVE ScanOrder(_)
ScanOrder(matches) ==
    IF matches = <<>> THEN <<>>
    ELSE [k \in 1..Len(Head(matches).offices) |->
              [office |-> Head(matches).offices[k], settlement_score |-> Head(matches).score]]
         \o ScanOrder(Tail(matches))

MainInit ==
    /\ pc = "parse_html"
    /\ error = "none"
    /\ offices_data = <<>>
    /\ worksheet = <<>>
    /\ settlement_cache = <<>>
    /\ row_num = 0
    /\ results = <<>>
    /\ output = None
    /\ rpc = "Start"
    /\ address_data = None
    /\ matching_settlements = <<>>
    /\ pos = 0
    /\ best_match = None
    /\ best_score = FZero
    /\ scores = <<>>

Init == MainInit /\ probe = None

(***************************************************************************)
(* main()                                                                  *)
(***************************************************************************)
\* variant: the run goes on with an empty database
ParseHTML_unchecked ==
    /\ pc = "parse_html"
    /\ \E html_files \in HtmlFiles :
       \E db \in {Parsed[html_files]} :
          /\ offices_data' = db
          /\ pc' = "load_workbook"
          /\ error' = "none"
    /\ UNCHANGED <<worksheet, settlement_cache, row_num, results, output, probe>>
    /\ UNCHANGED rowVars

\* main.py 19-23: parse_html_files over the pages found under regions_html;
\* an empty database aborts
ParseHTML ==
    /\ pc = "parse_html"
    /\ \E html_files \in HtmlFiles :
       \E db \in {Parsed[html_files]} :
          /\ offices_data' = db
          /\ pc' = IF db = <<>> THEN "aborted" ELSE "load_workbook"
          /\ error' = IF db = <<>> THEN "Exception" ELSE "none"
    /\ UNCHANGED <<worksheet, settlement_cache, row_num, results, output, probe>>
    /\ UNCHANGED rowVars

\* main.py 32-33 and ExcelProcessor.load_workbook: the file is loaded; or it
\* is missing (excel_processor.py 28-29); or opening it for writing raises
\* PermissionError (34-37); or opening or loading it raises anything else (a
\* directory of that name, a file openpyxl cannot read), which is raised again
\* at 53-55 and ends main() in 'except Exception'
LoadWorkbook ==
    /\ pc = "load_workbook"
    /\ \E file \in {"ok", "missing", "locked", "unreadable"} :
          IF file = "ok"
          THEN /\ \E sheet \in Sheets : worksheet' = sheet
               /\ pc' = "build_matcher"
               /\ error' = "none"
          ELSE /\ worksheet' = worksheet
               /\ pc' = "aborted"
               /\ error' = IF file = "missing" THEN "FileNotFoundError"
                           ELSE IF file = "locked" THEN "PermissionError"
                           ELSE "Exception"
    /\ UNCHANGED <<offices_data, settlement_cache, row_num, results, output, probe>>
    /\ UNCHANGED rowVars

\* main.py 40-46: AddressMatcher(offices_data), then the loop starts at row 9
BuildMatcher ==
    /\ pc = "build_matcher"
    /\ \E cache \in {_prepare_search_cache(offices_data)} : settlement_cache' = cache
    /\ row_num' = EXCEL_START_ROW + 1
    /\ pc' = "loop"
    /\ UNCHANGED <<error, offices_data, worksheet, results, output, probe>>
    /\ UNCHANGED rowVars

\* main.py 47-49 and matcher.py 53-58: the row is read; an empty one is skipped
ReadRow ==
    /\ pc = "loop"
    /\ rpc \in {"Start", "Done"}
    /\ row_num <= max_row
    /\ \E data \in {read_address_row(worksheet, row_num)} :
           IF data = None
           THEN /\ row_num' = row_num + 1
                /\ UNCHANGED rowVars
           ELSE /\ address_data' = data
                /\ rpc' = "SettlementSearch"
                /\ matching_settlements' = <<>>
                /\ pos' = 0
                /\ best_match' = None
                /\ best_score' = FZero
                /\ scores' = <<>>
                /\ row_num' = row_num
    /\ UNCHANGED <<pc, error, offices_data, worksheet, settlement_cache, results, output,
                   probe>>

\* the result is returned: main() appends it and goes to the next row
\* (main.py 50-52); a caller of its own keeps it as the result of the call
Return(result) ==
    /\ results' = Append(results, result)
    /\ row_num' = IF pc = "loop" THEN row_num + 1 ELSE row_num
    /\ rpc' = "Done"

\* variant: the search takes the candidate buckets out of the index
SettlementSearch_consuming ==
    /\ pc \in {"loop", "matcher"}
    /\ rpc = "SettlementSearch"
    /\ \E found \in {_find_matching_settlements(settlement_cache,
                                                  address_data.settlement)} :
           /\ settlement_cache' =
                 SelectSeq(settlement_cache,
                           LAMBDA item : \A k \in 1..Len(found) : found[k].name # item[1])
           /\ IF found = <<>>
              THEN /\ Return([row_num |-> address_data.row_num,
                              status  |-> StatusNo,
                              details |-> [kind |-> "settlement_not_found",
                                           settlement |-> address_data.settlement]])
                   /\ UNCHANGED matching_settlements
              ELSE /\ matching_settlements' = found
                   /\ rpc' = "StreetHouseSearch"
                   /\ UNCHANGED <<results, row_num>>
    /\ UNCHANGED <<pc, error, offices_data, worksheet, output, probe,
                   address_data, pos, best_match, best_score, scores>>

\* matcher.py 61-70
SettlementSearch ==
    /\ pc \in {"loop", "matcher"}
    /\ rpc = "SettlementSearch"
    /\ \E found \in {_find_matching_settlements(settlement_cache,
                                                  address_data.settlement)} :
           IF found = <<>>
           THEN /\ Return([row_num |-> address_data.row_num,
                           status  |-> StatusNo,
                           details |-> [kind |-> "settlement_not_found",
                                        settlement |-> address_data.settlement]])
                /\ UNCHANGED matching_settlements
           ELSE /\ matching_settlements' = found
                /\ rpc' = "StreetHouseSearch"
                /\ UNCHANGED <<results, row_num>>
    /\ UNCHANGED <<pc, error, offices_data, worksheet, settlement_cache, output, probe,
                   address_data, pos, best_match, best_score, scores>>

\* variant: a later office with an equal score replaces the best one
Better_or_equal(score, best) == FGe(score, best)

\* matcher.py 85: match_result['score'] > best_score
Better(score, best) == FGt(score, best)

\* variant: no handler, the fault leaves match_address and ends main()
OnFault_propagating(message) ==
    /\ pc' = "aborted"
    /\ error' = "KeyError"
    /\ UNCHANGED <<results, row_num, rpc>>

\* matcher.py 106-112: the fault is caught and becomes the row's result
OnFault(message) ==
    /\ Return([row_num |-> address_data.row_num,
               status  |-> StatusCheck,
               details |-> [kind |-> "error", message |-> message]])
    /\ UNCHANGED <<pc, error>>

\* matcher.py 76-92, one office; a fault goes to the handler at 106-112
ScoreOffice ==
    /\ pc \in {"loop", "matcher"}
    /\ rpc = "StreetHouseSearch"
    /\ pos < Len(ScanOrder(matching_settlements))
    /\ \E item \in {ScanOrder(matching_settlements)[pos + 1]} :
       \E match_result \in {_match_street_and_house(address_data.street,
                                                    address_data.house, item.office,
                                                    item.settlement_score)} :
           IF "fault" \in DOMAIN match_result
           THEN /\ OnFault(match_result.fault)
                /\ UNCHANGED <<pos, best_match, best_score, scores>>
           ELSE /\ pos' = pos + 1
                /\ scores' = Append(scores, match_result.score)
                /\ IF Better(match_result.score, best_score)
                   THEN /\ best_score' = match_result.score
                        /\ best_match' = [office |-> item.office,
                                          settlement_score |-> item.settlement_score,
                                          total_score |-> match_result.score,
                                          details |-> match_result.details]
                   ELSE UNCHANGED <<best_match, best_score>>
                /\ UNCHANGED <<results, row_num, rpc, pc, error>>
    /\ UNCHANGED <<offices_data, worksheet, settlement_cache, output, probe,
                   address_data, matching_settlements>>

\* matcher.py 95-104
Classify ==
    /\ pc \in {"loop", "matcher"}
    /\ rpc = "StreetHouseSearch"
    /\ pos = Len(ScanOrder(matching_settlements))
    /\ IF best_match # None
       THEN \E result \in {_determine_status(best_match, address_data)} : Return(result)
       ELSE Return([row_num |-> address_data.row_num,
                    status  |-> StatusNo,
                    details |-> [kind |-> "street_not_found",
                                 street |-> address_data.street,
                                 settlement |-> address_data.settlement]])
    /\ UNCHANGED <<pc, error, offices_data, worksheet, settlement_cache, output, probe,
                   address_data, matching_settlements, pos, best_match, best_score, scores>>

\* excel_processor.py 107-121 for the results in order; cells[k] tells which
\* cells of result k the sheet took: both; the status only, assigning the
\* details having raised; none, assigning the status having raised.  The
\* exception is logged and write_result returns
RECURSIVE Written(_, _, _)
Written(list, cells, k) ==
    IF k > Len(list) THEN <<>>
    ELSE (IF cells[k] = "both" THEN <<list[k]>>
          ELSE IF cells[k] = "status"
          THEN <<[row_num |-> list[k].row_num, status |-> list[k].status]>>
          ELSE <<>>)
         \o Written(list, cells, k + 1)

\* main.py 58-62 and ExcelProcessor.save_results: every result is written to
\* the sheet as far as its cells take it, then the workbook is saved; or
\* workbook.save raises, which is raised again at 147-149 and ends main() in
\* the except clause of the exception
SaveResults ==
    /\ pc = "loop"
    /\ rpc \in {"Start", "Done"}
    /\ row_num > max_row
    /\ \E outcome \in {"saved", "FileNotFoundError", "PermissionError", "Exception"} :
          IF outcome = "saved"
          THEN /\ \E cells \in [1..Len(results) -> {"both", "status", "none"}] :
                     output' = [rows |-> Written(results, cells, 1)]
               /\ pc' = "statistics"
               /\ error' = "none"
          ELSE /\ output' = output
               /\ pc' = "aborted"
               /\ error' = outcome
    /\ UNCHANGED <<offices_data, worksheet, settlement_cache, row_num, results, probe>>
    /\ UNCHANGED rowVars

\* main.py 64-74: the statistics and the closing lines are printed and the
\* workbook is closed; a print the console cannot encode (the lines hold
\* emoji) raises and ends main() in 'except Exception', the file being saved
PrintStatistics ==
    /\ pc = "statistics"
    /\ \E console \in {"prints", "raises"} :
          /\ pc' = IF console = "prints" THEN "done" ELSE "aborted"
          /\ error' = IF console = "prints" THEN "none" ELSE "Exception"
    /\ UNCHANGED <<offices_data, worksheet, settlement_cache, row_num, results, output,
                   probe>>
    /\ UNCHANGED rowVars

Next ==
    \/ ParseHTML
    \/ LoadWorkbook
    \/ BuildMatcher
    \/ ReadRow
    \/ SettlementSearch
    \/ ScoreOffice
    \/ Classify
    \/ SaveResults
    \/ PrintStatistics

Spec == Init /\ [][Next]_vars

(***************************************************************************)
(* AddressMatcher on its own: a caller constructs it with a database of    *)
(* its own and calls match_address for a list of addresses; results holds  *)
(* what the calls returned, in call order.                                 *)
(***************************************************************************)
InitMatcher ==
    /\ pc = "new_matcher"
    /\ error = "none"
    /\ offices_data \in CallerDatabases
    /\ worksheet = <<>>
    /\ settlement_cache = <<>>
    /\ row_num = 0
    /\ results = <<>>
    /\ output = None
    /\ rpc = "Start"
    /\ address_data = None
    /\ matching_settlements = <<>>
    /\ pos = 0
    /\ best_match = None
    /\ best_score = FZero
    /\ scores = <<>>
    /\ probe \in [calls : CallLists]

\* matcher.py 14-21: AddressMatcher(offices_data)
NewMatcher ==
    /\ pc = "new_matcher"
    /\ \E cache \in {_prepare_search_cache(offices_data)} : settlement_cache' = cache
    /\ pc' = "matcher"
    /\ UNCHANGED <<error, offices_data, worksheet, row_num, results, output, probe>>
    /\ UNCHANGED rowVars

\* matcher.py 53-58: the next call of match_address
MatchAddress ==
    /\ pc = "matcher"
    /\ rpc \in {"Start", "Done"}
    /\ Len(results) < Len(probe.calls)
    /\ address_data' = probe.calls[Len(results) + 1]
    /\ rpc' = "SettlementSearch"
    /\ matching_settlements' = <<>>
    /\ pos' = 0
    /\ best_match' = None
    /\ best_score' = FZero
    /\ scores' = <<>>
    /\ UNCHANGED mainVars
    /\ UNCHANGED probe

NextMatcher ==
    \/ NewMatcher
    \/ MatchAddress
    \/ SettlementSearch
    \/ ScoreOffice
    \/ Classify

SpecMatcher == InitMatcher /\ [][NextMatcher]_vars

(***************************************************************************)
(* _calculate_similarity on its own: every pair of texts of at most MaxLen *)
(* letters over a three-letter alphabet, scored in both argument orders.   *)
(***************************************************************************)
MaxLen == 3

\* "a", "b", "c"
Alphabet == {97, 98, 99}

Strings == UNION {[1..n -> Alphabet] : n \in 0..MaxLen}

InitSim ==
    /\ MainInit
    /\ probe \in [text1 : Strings, text2 : Strings, forward : {None}, backward : {None}]

\* matcher._calculate_similarity(text1, text2) and
\* matcher._calculate_similarity(text2, text1)
CalculateSimilarity ==
    /\ probe.forward = None
    /\ probe' = [probe EXCEPT !.forward = _calculate_similarity(probe.text1, probe.text2),
                              !.backward = _calculate_similarity(probe.text2, probe.text1)]
    /\ UNCHANGED mainVars
    /\ UNCHANGED rowVars

NextSim == CalculateSimilarity

SpecSim == InitSim /\ [][NextSim]_vars

(***************************************************************************)
(* _calculate_house_similarity on its own: every house text of at most     *)
(* MaxHouseLen characters against a pool of house texts, in both orders.   *)
(***************************************************************************)
MaxHouseLen == 3

\* "1", "2", "A", "a", " "
HouseAlphabet == {49, 50, 65, 97, 32}

HouseStrings == UNION {[1..n -> HouseAlphabet] : n \in 0..MaxHouseLen}

\* "", "12", "12A", "12a", " 12 ", "A", "a1", "2/1", "A 12"
HousePool == {<<>>, <<49, 50>>, <<49, 50, 65>>, <<49, 50, 97>>, <<32, 49, 50, 32>>,
              <<65>>, <<97, 49>>, <<50, 47, 49>>, <<65, 32, 49, 50>>}

InitHouse ==
    /\ MainInit
    /\ probe \in [house1 : HouseStrings, house2 : HousePool, similarity : {None}]
                 \cup [house1 : HousePool, house2 : HouseStrings, similarity : {None}]

\* matcher._calculate_house_similarity(house1, house2)
CalculateHouseSimilarity ==
    /\ probe.similarity = None
    /\ probe' = [probe EXCEPT
                    !.similarity = _calculate_house_similarity(probe.house1, probe.house2)]
    /\ UNCHANGED mainVars
    /\ UNCHANGED rowVars

NextHouse == CalculateHouseSimilarity

SpecHouse == InitHouse /\ [][NextHouse]_vars

(***************************************************************************)
(* The index on its own: AddressMatcher(offices_data) is built for every   *)
(* database of at most MaxKeys settlements, then searched for a settlement *)
(* name.                                                                   *)
(***************************************************************************)
MaxKeys == 3

\* "караганда"
T_karaganda == <<1082, 1072, 1088, 1072, 1075, 1072, 1085, 1076, 1072>>

\* "карагандады"
T_karagandady == <<1082, 1072, 1088, 1072, 1075, 1072, 1085, 1076, 1072, 1076, 1099>>

\* "карагандаса"
T_karagandasa == <<1082, 1072, 1088, 1072, 1075, 1072, 1085, 1076, 1072, 1089, 1072>>

\* "город караганда"
T_gorod_karaganda == <<1075, 1086, 1088, 1086, 1076, 32, 1082, 1072, 1088, 1072, 1075, 1072, 1085, 1076, 1072>>

\* "караганды"
T_karagandy == <<1082, 1072, 1088, 1072, 1075, 1072, 1085, 1076, 1099>>

\* "Караганда"
T_Karaganda == <<1050, 1072, 1088, 1072, 1075, 1072, 1085, 1076, 1072>>

\* "г. Карагандады"
T_g_Karagandady == <<1075, 46, 32, 1050, 1072, 1088, 1072, 1075, 1072, 1085, 1076, 1072, 1076, 1099>>

\* the settlement keys of the databases
KeyPool == {T_karaganda, T_karagandady, T_karagandasa, T_gorod_karaganda, T_karagandy}

\* the office list a database holds under a key: two offices, one, or none
OfficesOf(key) ==
    IF key = T_karaganda
    THEN <<Office(key, T_ul_Abaya, T_1), Office(key, T_pr_Dostyk, T_12A)>>
    ELSE IF key = T_karagandy THEN <<>>
    ELSE <<Office(key, T_ul_Mira, T_7A)>>

\* a dict holds each key once; its items are in insertion order
IndexDatabases ==
    {[i \in 1..Len(keys) |-> <<keys[i], OfficesOf(keys[i])>>] :
        keys \in {ks \in UNION {[1..n -> KeyPool] : n \in 0..MaxKeys} :
                     \A i, j \in 1..Len(ks) : i # j => ks[i] # ks[j]}}

Queries == {T_Karaganda, T_g_Karagandady, T_Shymkent}

InitIndex ==
    /\ MainInit
    /\ probe \in [offices_data : IndexDatabases, settlement_name : Queries,
                  settlement_cache : {<<>>}, matches : {<<>>}, stage : {"new"}]

\* AddressMatcher(offices_data): matcher.py 14-41
PrepareSearchCache ==
    /\ probe.stage = "new"
    /\ probe' = [probe EXCEPT !.settlement_cache = _prepare_search_cache(probe.offices_data),
                              !.stage = "built"]
    /\ UNCHANGED mainVars
    /\ UNCHANGED rowVars

\* matcher._find_matching_settlements(settlement_name)
FindMatchingSettlements ==
    /\ probe.stage = "built"
    /\ probe' = [probe EXCEPT
                    !.matches = _find_matching_settlements(probe.settlement_cache,
                                                           probe.settlement_name),
                    !.stage = "searched"]
    /\ UNCHANGED mainVars
    /\ UNCHANGED rowVars

NextIndex ==
    \/ PrepareSearchCache
    \/ FindMatchingSettlements

SpecIndex == InitIndex /\ [][NextIndex]_vars

(***************************************************************************)
(* The scan of the pages on its own: parse_html_files over a list of pages *)
(***************************************************************************)
\* _extract_office_data for each container of the pages
Extracted ==
    [c \in GoodContainers \cup BadContainers |->
        IF c = Raising THEN Raised ELSE _extract_office_data(c)]

InitParse ==
    /\ MainInit
    /\ probe \in [html_files : UNION {[1..n -> FilePool] : n \in 0..MaxFiles},
                  file : {0}, container : {0}, offices_data : {<<>>}, stage : {"start"}]

\* html_parser.py 27-33: without pages the result is the empty database
ParseHtmlFiles ==
    /\ probe.stage = "start"
    /\ probe' = [probe EXCEPT !.stage = IF probe.html_files = <<>> THEN "returned"
                                        ELSE "files"]
    /\ UNCHANGED mainVars
    /\ UNCHANGED rowVars

\* html_parser.py 36-43 and 60-68: the next page is opened; one that cannot be
\* read is logged and skipped
ParseSingleFile ==
    /\ probe.stage = "files"
    /\ probe.file < Len(probe.html_files)
    /\ probe' = [probe EXCEPT !.file = probe.file + 1,
                              !.container = 0,
                              !.stage = IF probe.html_files[probe.file + 1].readable
                                        THEN "containers" ELSE "files"]
    /\ UNCHANGED mainVars
    /\ UNCHANGED rowVars

\* html_parser.py 76-77: the exception is logged, the loop goes on
OnExtractFault(state) == [state EXCEPT !.container = state.container + 1]

\* html_parser.py 69-77: one container of the page
ExtractOffice ==
    /\ probe.stage = "containers"
    /\ probe.container < Len(probe.html_files[probe.file].containers)
    /\ \E office_data \in
           {Extracted[probe.html_files[probe.file].containers[probe.container + 1]]} :
          probe' = IF office_data = Raised THEN OnExtractFault(probe)
                   ELSE IF office_data = None
                   THEN [probe EXCEPT !.container = probe.container + 1]
                   ELSE [probe EXCEPT
                            !.container = probe.container + 1,
                            !.offices_data = _add_office_to_database(probe.offices_data,
                                                                     office_data)]
    /\ UNCHANGED mainVars
    /\ UNCHANGED rowVars

\* html_parser.py 79 and 39-40: the page is done
EndOfFile ==
    /\ probe.stage = "containers"
    /\ probe.container = Len(probe.html_files[probe.file].containers)
    /\ probe' = [probe EXCEPT !.stage = "files"]
    /\ UNCHANGED mainVars
    /\ UNCHANGED rowVars

\* html_parser.py 45-48
ReturnOfficesData ==
    /\ probe.stage = "files"
    /\ probe.file = Len(probe.html_files)
    /\ probe' = [probe EXCEPT !.stage = "returned"]
    /\ UNCHANGED mainVars
    /\ UNCHANGED rowVars

NextParse ==
    \/ ParseHtmlFiles
    \/ ParseSingleFile
    \/ ExtractOffice
    \/ EndOfFile
    \/ ReturnOfficesData

SpecParse == InitParse /\ [][NextParse]_vars

(***************************************************************************)
(* Properties of the batch run (Spec)                                      *)
(***************************************************************************)
\* the settlement cell of row n holds a text that is not blank
HasSettlement(n) ==
    /\ "text" \in DOMAIN worksheet[n - EXCEL_START_ROW][1]
    /\ \E i \in 1..Len(worksheet[n - EXCEL_START_ROW][1].text) :
          ~IsSpace(worksheet[n - EXCEL_START_ROW][1].text[i])

\* the rows up to row m that have a settlement, in ascending order
RECURSIVE RowsWithSettlement(_)
RowsWithSettlement(m) ==
    IF m <= EXCEL_START_ROW THEN <<>>
    ELSE RowsWithSettlement(m - 1) \o (IF HasSettlement(m) THEN <<m>> ELSE <<>>)

LastResult == results[Len(results)]

\* the row in address_data went through the whole street and house search
Classified ==
    /\ rpc = "Done"
    /\ matching_settlements # <<>>
    /\ pos = Len(ScanOrder(matching_settlements))

\* C1: the result list holds exactly one result for each row that has a
\* settlement, with that row's number, in ascending row order, and nothing
\* for a row without a settlement; the run that reaches the saving of the
\* results has read every row
C1_OneResultPerRowWithSettlement ==
    /\ [k \in 1..Len(results) |-> results[k].row_num] = RowsWithSettlement(row_num - 1)
    /\ pc \in {"statistics", "done"} => row_num = max_row + 1

\* a finished two-row run whose first row has no settlement: one result, for
\* the second row
C1_Witness ==
    /\ pc = "done"
    /\ Len(worksheet) = 2
    /\ ~HasSettlement(EXCEL_START_ROW + 1)
    /\ Len(results) = 1
    /\ results[1].row_num = EXCEL_START_ROW + 2

(***************************************************************************)
(* Properties of match_address (SpecMatcher)                               *)
(***************************************************************************)
\* scoring the offices of the candidates of call k meets an office that has
\* no 'settlement' field, which raises KeyError
FaultAt(k) ==
    \E scan \in {ScanOrder(_find_matching_settlements(settlement_cache,
                                                      probe.calls[k].settlement))} :
        \E i \in 1..Len(scan) : "settlement" \notin DOMAIN scan[i].office

\* C2: a fault raised while an address is resolved becomes the result of that
\* call, with the address's row number, status 'Проверить' and the fault
\* message in the details; it never leaves match_address, no call is left
\* out and every call made so far has its result
C2_FaultBecomesNeedsReview ==
    /\ pc # "aborted"
    /\ Len(results) <= Len(probe.calls)
    /\ rpc \in {"SettlementSearch", "StreetHouseSearch"} =>
          address_data = probe.calls[Len(results) + 1]
    /\ \A k \in 1..Len(results) :
          /\ results[k].row_num = probe.calls[k].row_num
          /\ results[k].details.kind = "error" <=> FaultAt(k)
          /\ results[k].details.kind = "error" =>
                /\ results[k].status = StatusCheck
                /\ results[k].details.message = KeyErrorSettlement

\* the first of two calls ended in the caught fault and the second one was
\* still resolved
C2_Witness ==
    /\ Len(probe.calls) = 2
    /\ Len(results) = 2
    /\ results[1].row_num = 1
    /\ results[1].status = StatusCheck
    /\ results[1].details.kind = "error"
    /\ results[2].row_num = 2
    /\ results[2].details.kind # "error"

\* C3: the status of a classified row is decided by the winning composite c
\* alone: 'Да' for c >= 0.9, 'Проверить' for 0.4 <= c < 0.9, 'Нет' for
\* c < 0.4, and 'Нет' when no office gave a positive composite
C3_StatusFromComposite ==
    Classified =>
        /\ LastResult.row_num = address_data.row_num
        /\ best_match = None <=> best_score = FZero
        /\ best_match # None => best_match.total_score = best_score
        /\ best_score = FZero => LastResult.status = StatusNo
        /\ FGe(best_score, FRat(9, 10)) => LastResult.status = StatusYes
        /\ FGe(best_score, FRat(4, 10)) /\ FLt(best_score, FRat(9, 10))
               => LastResult.status = StatusCheck
        /\ FLt(best_score, FRat(4, 10)) => LastResult.status = StatusNo

\* a row whose winning composite is exactly 0.9 and which is confirmed
C3_Witness ==
    /\ Classified
    /\ best_score = FRat(9, 10)
    /\ LastResult.status = StatusYes

(****************************************************************************)
(* Properties of the resolution of a row in the batch run (Spec)           *)
(****************************************************************************)
\* no key of the index is similar enough to the settlement being resolved
NoBucketMatches ==
    \A i \in 1..Len(settlement_cache) :
        FLt(_calculate_similarity(_normalize_text(address_data.settlement),
                                  settlement_cache[i][1]),
            FRat(9, 10))

\* C4: when no index key reaches the settlement threshold 0.9, the settlement
\* search ends the row at once: the result is 'Нет' with details saying that
\* the settlement was not found, and no office is scored
C4_SettlementNotFound ==
    [][(pc = "loop" /\ rpc = "SettlementSearch" /\ NoBucketMatches) =>
          /\ rpc' = "Done"
          /\ results' = Append(results,
                               [row_num |-> address_data.row_num,
                                status  |-> StatusNo,
                                details |-> [kind |-> "settlement_not_found",
                                             settlement |-> address_data.settlement]])
          /\ pos' = 0
          /\ scores' = <<>>
          /\ best_match' = None]_vars

\* a row ended by the settlement search against a non-empty index
C4_Witness ==
    /\ rpc = "Done"
    /\ settlement_cache # <<>>
    /\ NoBucketMatches
    /\ LastResult.row_num = address_data.row_num
    /\ LastResult.status = StatusNo
    /\ LastResult.details.kind = "settlement_not_found"
    /\ scores = <<>>

\* the composite of the k-th office in scan order
Composite(k) ==
    With(ScanOrder(matching_settlements)[k], LAMBDA item :
        FAdd(FAdd(FMul(item.settlement_score, FRat(3, 10)),
                  FMul(_calculate_similarity(_normalize_text(address_data.street),
                                             _normalize_text(item.office.street)),
                       FRat(7, 10))),
             FMul(_calculate_house_similarity(address_data.house, item.office.house),
                  FRat(3, 10))))

\* C5: a classified row has scored every office of every candidate, the
\* candidates in descending settlement score; each score is the weighted
\* composite, and the office reported is the first one in scan order whose
\* composite is the maximum
C5_FullScanFirstMaximum ==
    Classified =>
        /\ \A i, j \in 1..Len(matching_settlements) :
              i < j => FGe(matching_settlements[i].score, matching_settlements[j].score)
        /\ Len(scores) = Len(ScanOrder(matching_settlements))
        /\ \A k \in 1..Len(scores) : scores[k] = Composite(k)
        /\ scores # <<>> =>
              /\ best_match # None
              /\ \E k \in 1..Len(scores) :
                    /\ best_match.office = ScanOrder(matching_settlements)[k].office
                    /\ best_match.total_score = scores[k]
                    /\ \A j \in 1..Len(scores) : FGe(scores[k], scores[j])
                    /\ \A j \in 1..(k - 1) : FLt(scores[j], scores[k])

\* two different offices share the maximum and the earlier one is reported
C5_Witness ==
    /\ Classified
    /\ \E i, j \in 1..Len(scores) :
          /\ i < j
          /\ scores[i] = best_score
          /\ scores[j] = best_score
          /\ ScanOrder(matching_settlements)[i].office
                # ScanOrder(matching_settlements)[j].office
          /\ best_match.office = ScanOrder(matching_settlements)[i].office

\* the settlement matched and the best composite is between 0.3 and 0.35
ScenarioC ==
    /\ Classified
    /\ best_match # None
    /\ FGe(best_score, FRat(30, 100))
    /\ FGe(FRat(35, 100), best_score)

\* C6 (as amended): in scenario C, a matched settlement with a best composite
\* of about 0.3 to 0.35, the row's status is 'Нет'
C6_ScenarioC_NotFound ==
    ScenarioC => LastResult.status = StatusNo /\ LastResult.details.kind = "found"

\* C6 (as stated): in scenario C the row's status is 'Проверить'
C6_ScenarioC_NeedsReview == ScenarioC => LastResult.status = StatusCheck

\* scenario C has been classified
C6_Witness == ScenarioC /\ LastResult.row_num = address_data.row_num

(****************************************************************************)
(* Scenario A (SpecMatcher)                                                *)
(****************************************************************************)
\* the database holds the one Latin office and the row "Алматы", "Абая",
\* "150" has been resolved
ScenarioA ==
    /\ offices_data = DbLatin
    /\ rpc = "Done"
    /\ address_data # None
    /\ address_data.settlement = T_Almaty
    /\ address_data.street = T_Abaya
    /\ address_data.house = T_150
    /\ LastResult.row_num = address_data.row_num

\* C7 (as amended): in scenario A the status is 'Нет', the settlement not
\* being found
C7_ScenarioA_NotFound ==
    ScenarioA =>
        /\ LastResult.status = StatusNo
        /\ LastResult.details.kind = "settlement_not_found"

\* C7 (as stated): in scenario A the status is 'Да'
C7_ScenarioA_Confirmed == ScenarioA => LastResult.status = StatusYes

\* scenario A has been resolved and no office was scored
C7_Witness == ScenarioA /\ scores = <<>> /\ LastResult.status = StatusNo

(***************************************************************************)
(* Properties of _calculate_similarity (SpecSim)                           *)
(***************************************************************************)
\* C8: the similarity of two texts does not depend on their order
C8_SimilaritySymmetric ==
    probe.forward # None => probe.forward = probe.backward

\* C9 (as amended): a non-empty text has similarity 1.0 with itself; the
\* similarity is 0.0 as soon as one of the two texts is empty, two empty
\* texts included; every similarity is between 0.0 and 1.0
C9_SimilarityFixedPoints ==
    probe.forward # None =>
        /\ probe.text1 = probe.text2 /\ probe.text1 # <<>> => probe.forward = FRat(1, 1)
        /\ probe.text1 = <<>> \/ probe.text2 = <<>> => probe.forward = FZero
        /\ FGe(probe.forward, FZero)
        /\ FGe(FRat(1, 1), probe.forward)

\* C9 (as stated): every text, the empty one too, has similarity 1.0 with
\* itself; a non-empty text and the empty one have similarity 0.0; every
\* similarity is between 0.0 and 1.0
C9_SimilarityOfEveryTextWithItself ==
    probe.forward # None =>
        /\ probe.text1 = probe.text2 => probe.forward = FRat(1, 1)
        /\ probe.text1 # probe.text2 /\ (probe.text1 = <<>> \/ probe.text2 = <<>>)
              => probe.forward = FZero
        /\ FGe(probe.forward, FZero)
        /\ FGe(FRat(1, 1), probe.forward)

\* "aba" scored against itself
C9_Witness ==
    /\ probe.text1 = <<97, 98, 97>>
    /\ probe.text2 = <<97, 98, 97>>
    /\ probe.forward = FRat(1, 1)

(***************************************************************************)
(* Properties of _calculate_house_similarity (SpecHouse)                   *)
(***************************************************************************)
RECURSIVE LeadingDigits(_)
LeadingDigits(s) ==
    IF s # <<>> /\ IsDigit(Head(s)) THEN <<Head(s)>> \o LeadingDigits(Tail(s)) ELSE <<>>

\* the first run of decimal digits of s, empty when s has no digit
RECURSIVE FirstDigitRun(_)
FirstDigitRun(s) ==
    IF s = <<>> THEN <<>>
    ELSE IF IsDigit(Head(s)) THEN LeadingDigits(s)
    ELSE FirstDigitRun(Tail(s))

SameHouseText(h1, h2) == Lower(Strip(h1)) = Lower(Strip(h2))

SameHouseNumber(h1, h2) ==
    FirstDigitRun(h1) # <<>> /\ FirstDigitRun(h1) = FirstDigitRun(h2)

\* C10: the house similarity is 0.0 if either text is empty; else 1.0 if the
\* texts are equal once trimmed and lower-cased; else 0.9 if both have a digit
\* run and their first digit runs are equal; else the similarity of the raw
\* texts; it is never above 1.0
C10_HouseTiers ==
    probe.similarity # None =>
        /\ (probe.house1 = <<>> \/ probe.house2 = <<>>) => probe.similarity = FZero
        /\ (probe.house1 # <<>> /\ probe.house2 # <<>>) =>
              /\ SameHouseText(probe.house1, probe.house2) => probe.similarity = FRat(1, 1)
              /\ ~SameHouseText(probe.house1, probe.house2) =>
                    /\ SameHouseNumber(probe.house1, probe.house2)
                          => probe.similarity = FRat(9, 10)
                    /\ ~SameHouseNumber(probe.house1, probe.house2)
                          => probe.similarity
                                = _calculate_similarity(probe.house1, probe.house2)
        /\ FGe(probe.similarity, FZero)
        /\ FGe(FRat(1, 1), probe.similarity)

\* "12" against "12A" gives 0.9
C10_Witness ==
    /\ probe.house1 = <<49, 50>>
    /\ probe.house2 = <<49, 50, 65>>
    /\ probe.similarity = FRat(9, 10)

(***************************************************************************)
(* Properties of the index (SpecIndex)                                     *)
(***************************************************************************)
\* the office lists of the database items whose key normalizes to key, from
\* item i on, one after the other
RECURSIVE ListsUnder(_, _, _)
ListsUnder(data, key, i) ==
    IF i > Len(data) THEN <<>>
    ELSE (IF _normalize_text(data[i][1]) = key THEN data[i][2] ELSE <<>>)
         \o ListsUnder(data, key, i + 1)

RECURSIVE CountOffices(_)
CountOffices(dict) ==
    IF dict = <<>> THEN 0 ELSE Len(Head(dict)[2]) + CountOffices(Tail(dict))

\* the built index holds each key once; every database key has its bucket,
\* keyed by its normalized form; every bucket is the concatenation, in
\* database order, of the lists of the keys that normalize to its key; the
\* offices indexed are as many as the database holds
IndexGroupsDatabase ==
    probe.stage # "new" =>
        /\ \A i, j \in 1..Len(probe.settlement_cache) :
              i # j => probe.settlement_cache[i][1] # probe.settlement_cache[j][1]
        /\ \A i \in 1..Len(probe.offices_data) :
              \E j \in 1..Len(probe.settlement_cache) :
                  probe.settlement_cache[j][1] = _normalize_text(probe.offices_data[i][1])
        /\ \A j \in 1..Len(probe.settlement_cache) :
              /\ \E i \in 1..Len(probe.offices_data) :
                    probe.settlement_cache[j][1] = _normalize_text(probe.offices_data[i][1])
              /\ probe.settlement_cache[j][2]
                    = ListsUnder(probe.offices_data, probe.settlement_cache[j][1], 1)
        /\ CountOffices(probe.settlement_cache) = CountOffices(probe.offices_data)

\* C11: after the build every office of the database is in exactly one
\* bucket, the one keyed by its normalized settlement key; keys that
\* normalize alike share a bucket that concatenates their lists in database
\* order; the office totals agree, and the build leaves the database as it
\* was
C11_IndexGroupsByNormalizedKey ==
    /\ []IndexGroupsDatabase
    /\ [][probe'.offices_data = probe.offices_data]_vars

\* two database keys were merged into one bucket of three offices
C11_Witness ==
    /\ probe.stage # "new"
    /\ Len(probe.offices_data) = 2
    /\ Len(probe.settlement_cache) = 1
    /\ probe.settlement_cache[1][1] = T_karaganda
    /\ Len(probe.settlement_cache[1][2]) = 3

\* the position of a key in the index
KeyIndex(key) ==
    CHOOSE j \in 1..Len(probe.settlement_cache) : probe.settlement_cache[j][1] = key

QuerySimilarity(key) ==
    _calculate_similarity(_normalize_text(probe.settlement_name), key)

\* C12: the search returns exactly the buckets whose key is similar to the
\* normalized query at or above SETTLEMENT_MATCH_THRESHOLD, each once, with its offices and that
\* similarity as score, by non-increasing score, buckets of equal score in
\* index order
C12_CandidatesAtOrAboveThreshold ==
    probe.stage = "searched" =>
        /\ {probe.matches[k].name : k \in 1..Len(probe.matches)}
              = {probe.settlement_cache[j][1] : j \in
                    {i \in 1..Len(probe.settlement_cache) :
                        FGe(QuerySimilarity(probe.settlement_cache[i][1]),
                            SETTLEMENT_MATCH_THRESHOLD)}}
        /\ \A k \in 1..Len(probe.matches) :
              /\ probe.matches[k].score = QuerySimilarity(probe.matches[k].name)
              /\ probe.matches[k].offices
                    = probe.settlement_cache[KeyIndex(probe.matches[k].name)][2]
        /\ \A k, l \in 1..Len(probe.matches) :
              k < l =>
                 /\ FGe(probe.matches[k].score, probe.matches[l].score)
                 /\ probe.matches[k].score = probe.matches[l].score
                       => KeyIndex(probe.matches[k].name) < KeyIndex(probe.matches[l].name)

\* two buckets score exactly 0.9 and are returned in index order, while a
\* third bucket stays below the threshold
C12_Witness ==
    /\ probe.stage = "searched"
    /\ Len(probe.settlement_cache) = 3
    /\ Len(probe.matches) = 2
    /\ probe.matches[1].score = FRat(9, 10)
    /\ probe.matches[2].score = FRat(9, 10)
    /\ KeyIndex(probe.matches[1].name) < KeyIndex(probe.matches[2].name)

(***************************************************************************)
(* The index while addresses are resolved (SpecMatcher)                    *)
(***************************************************************************)
\* matcher.match_address(address_data) as a function of the index and the row:
\* the first fault, else the first office of maximal positive composite score
match_address(cache, data) ==
    With(_find_matching_settlements(cache, data.settlement), LAMBDA found :
      IF found = <<>>
      THEN [row_num |-> data.row_num, status |-> StatusNo,
            details |-> [kind |-> "settlement_not_found", settlement |-> data.settlement]]
      ELSE
        With(ScanOrder(found), LAMBDA scan :
        With([i \in 1..Len(scan) |->
                 _match_street_and_house(data.street, data.house, scan[i].office,
                                         scan[i].settlement_score)], LAMBDA rs :
        With({i \in 1..Len(scan) : "fault" \in DOMAIN rs[i]}, LAMBDA faults :
          IF faults # {}
          THEN [row_num |-> data.row_num, status |-> StatusCheck,
                details |-> [kind |-> "error",
                             message |-> rs[CHOOSE i \in faults :
                                               \A j \in faults : i <= j].fault]]
          ELSE IF \A i \in 1..Len(scan) : ~FGt(rs[i].score, FZero)
          THEN [row_num |-> data.row_num, status |-> StatusNo,
                details |-> [kind |-> "street_not_found", street |-> data.street,
                             settlement |-> data.settlement]]
          ELSE With(CHOOSE i \in 1..Len(scan) :
                        \A j \in 1..Len(scan) :
                            /\ FGe(rs[i].score, rs[j].score)
                            /\ j < i => FGt(rs[i].score, rs[j].score),
                    LAMBDA b :
                        _determine_status([office |-> scan[b].office,
                                           settlement_score |-> scan[b].settlement_score,
                                           total_score |-> rs[b].score,
                                           details |-> rs[b].details], data))))))

\* once built, the index is the one construction made of the database, and
\* every result is what match_address gives for its address against that index
IndexAsBuilt ==
    pc = "matcher" =>
        /\ settlement_cache = _prepare_search_cache(offices_data)
        /\ \A k \in 1..Len(results) :
              results[k] = match_address(settlement_cache, probe.calls[k])

\* C13: resolving addresses changes neither the index nor the database,
\* whatever the outcome of a call (found, not found, fault): the index stays
\* what construction made it, and each result is a function of the index and
\* the address alone, independent of the calls made before it
C13_ResolutionLeavesIndexUnchanged ==
    /\ []IndexAsBuilt
    /\ [][pc = "matcher" => /\ pc' = "matcher"
                            /\ settlement_cache' = settlement_cache
                            /\ offices_data' = offices_data]_vars

\* a row ending in a caught fault was resolved before a row that is confirmed
C13_Witness ==
    /\ Len(results) = 2
    /\ results[1].status = StatusCheck
    /\ results[1].details.kind = "error"
    /\ results[2].status = StatusYes
    /\ settlement_cache # <<>>

(***************************************************************************)
(* Output of the batch run (Spec)                                          *)
(***************************************************************************)
\* nothing was resolved and nothing was written
NothingDone ==
    /\ results = <<>>
    /\ output = None
    /\ row_num = 0
    /\ rpc = "Start"

\* every row of the output is a result, with its status and, when it has
\* details, its details, in the order of the results
RECURSIVE IsWrittenFrom(_, _)
IsWrittenFrom(rows, list) ==
    \/ rows = <<>>
    \/ /\ list # <<>>
       /\ \/ IsWrittenFrom(rows, Tail(list))
          \/ /\ Head(rows).row_num = Head(list).row_num
             /\ Head(rows).status = Head(list).status
             /\ "details" \in DOMAIN Head(rows) => Head(rows).details = Head(list).details
             /\ IsWrittenFrom(Tail(rows), Tail(list))

\* output exists only once the loop has passed the last row and every row
\* with a settlement has its result, and holds nothing but these results; an
\* empty database or a spreadsheet that cannot be loaded leaves an aborted
\* run in which nothing was done
OutputOnlyAfterAllRows ==
    /\ output # None =>
          /\ pc \in {"statistics", "done"} \/ (pc = "aborted" /\ error = "Exception")
          /\ row_num = max_row + 1
          /\ rpc \in {"Start", "Done"}
          /\ [k \in 1..Len(results) |-> results[k].row_num] = RowsWithSettlement(max_row)
          /\ IsWrittenFrom(output.rows, results)
    /\ pc = "done" => output # None
    /\ (pc # "parse_html" /\ offices_data = <<>>) =>
          pc = "aborted" /\ error = "Exception" /\ NothingDone
    /\ (pc = "aborted" /\ settlement_cache = <<>>) => NothingDone

\* a load_workbook that fails (file missing, locked or unreadable) aborts the
\* run with nothing done; no step but the saving of the results writes
\* output; an aborted run takes no further step
AbortIsUpFrontAndFinal ==
    /\ (pc = "load_workbook" /\ error' # "none") =>
          /\ error' \in {"FileNotFoundError", "PermissionError", "Exception"}
          /\ pc' = "aborted"
          /\ NothingDone'
    /\ output' # output => pc = "loop" /\ row_num > max_row /\ pc' = "statistics"
    /\ pc = "aborted" => UNCHANGED vars

\* C14: the results are written only after every row of the batch has been
\* resolved, and a run that finds the database empty or the spreadsheet
\* missing or locked aborts before any row is resolved and before any output
\* is written
C14_OutputAllOrNothing ==
    /\ []OutputOnlyAfterAllRows
    /\ [][AbortIsUpFrontAndFinal]_vars

\* the output of a two-row batch was written, one result per row
C14_Witness ==
    /\ output # None
    /\ Len(worksheet) = 2
    /\ Len(output.rows) = 2
    /\ output.rows = results
    /\ pc = "done"

(***************************************************************************)
(* Properties of the scan of the pages (SpecParse)                         *)
(***************************************************************************)
\* the containers of the readable pages among the first n, in scan order
RECURSIVE ContainersOf(_, _)
ContainersOf(files, n) ==
    IF n = 0 THEN <<>>
    ELSE ContainersOf(files, n - 1)
         \o (IF files[n].readable THEN files[n].containers ELSE <<>>)

\* the containers the scan is through
Scanned ==
    IF probe.stage = "containers"
    THEN ContainersOf(probe.html_files, probe.file - 1)
         \o SubSeq(probe.html_files[probe.file].containers, 1, probe.container)
    ELSE ContainersOf(probe.html_files, probe.file)

\* pattern k matches the text and leaves a cleaned field empty
LeavesFieldEmpty(text, k) ==
    With(Search(patterns[k], text), LAMBDA found :
        /\ found.ok
        /\ With(CleanedFields(text, found), LAMBDA f :
               ~(Truthy(f.settlement) /\ Truthy(f.street) /\ Truthy(f.house))))

\* the first pattern that matches the text, 0 when none does
FirstMatching(text) ==
    With({k \in 1..Len(patterns) : Search(patterns[k], text).ok}, LAMBDA matching :
        IF matching = {} THEN 0
        ELSE CHOOSE k \in matching : \A j \in matching : k <= j)

\* the ways a record fails: the extraction raises; there is no address text;
\* no pattern matches the address text; the first pattern that matches
\* leaves a cleaned field empty
Fails ==
    [c \in GoodContainers \cup BadContainers |->
        \/ c.kind # "address"
        \/ c.text = <<>>
        \/ With(CollapseSpaces(c.text), LAMBDA text :
               With(FirstMatching(text), LAMBDA k :
                   k = 0 \/ LeavesFieldEmpty(text, k)))]

\* the record parses successfully
ParsesSuccessfully(c) == ~Fails[c]

\* the office of a record that parses successfully: the scraped text and the
\* cleaned fields of the first pattern that matches
OfficeOf ==
    [c \in {x \in GoodContainers \cup BadContainers : ~Fails[x]} |->
        With(CollapseSpaces(c.text), LAMBDA text :
            With(CleanedFields(text, Search(patterns[FirstMatching(text)], text)),
                 LAMBDA f : [full_address |-> c.text,
                             settlement   |-> f.settlement.text,
                             street       |-> f.street.text,
                             house        |-> f.house.text]))]

\* the offices of the containers scanned that parse successfully, in scan order
OfficesScanned ==
    With(SelectSeq(Scanned, ParsesSuccessfully),
         LAMBDA good : [i \in 1..Len(good) |-> OfficeOf[good[i]]])

\* the database holds exactly the offices scanned that parse successfully:
\* each key once, every office under its lower-cased settlement, every bucket
\* in scan order, the buckets in the order of their first office
DatabaseIsOfficesScanned ==
    /\ \A i, j \in 1..Len(probe.offices_data) :
          i # j => probe.offices_data[i][1] # probe.offices_data[j][1]
    /\ \A i \in 1..Len(OfficesScanned) :
          HasKey(probe.offices_data, Lower(OfficesScanned[i].settlement))
    /\ \A j \in 1..Len(probe.offices_data) :
          /\ probe.offices_data[j][2] # <<>>
          /\ probe.offices_data[j][2]
                = SelectSeq(OfficesScanned,
                            LAMBDA office : Lower(office.settlement) = probe.offices_data[j][1])
    /\ probe.stage = "returned" => probe.file = Len(probe.html_files)

\* a container that fails adds nothing and the scan goes on with the next one
FailedRecordIsSkipped ==
    (/\ probe.stage = "containers"
     /\ probe.container < Len(probe.html_files[probe.file].containers)
     /\ Fails[probe.html_files[probe.file].containers[probe.container + 1]])
    => /\ probe'.offices_data = probe.offices_data
       /\ probe'.stage = "containers"
       /\ probe'.file = probe.file
       /\ probe'.container = probe.container + 1

\* C15: a record that fails (no pattern matches, a cleaned field is empty,
\* the extraction raises) adds nothing to the database and the scan goes on
\* with the next record and the next page; the database holds exactly the
\* records that parse successfully, each under its lower-cased settlement, in
\* scan order
C15_FailedRecordsDroppedScanContinues ==
    /\ []DatabaseIsOfficesScanned
    /\ [][FailedRecordIsSkipped]_vars

(***************************************************************************)
(* Bounds of the composite score (Spec, SpecMatcher)                       *)
(***************************************************************************)
\* the offices the row in address_data is scored against
Candidates == ScanOrder(matching_settlements)

\* some candidate office has the row's street: the normalized streets are
\* equal and not empty
StreetMatches ==
    /\ _normalize_text(address_data.street) # <<>>
    /\ \E i \in 1..Len(Candidates) :
          _normalize_text(Candidates[i].office.street) = _normalize_text(address_data.street)

\* C16: when some office of a candidate settlement has the row's non-empty
\* normalized street, the classified row is confirmed whatever the two
\* houses are: the winning composite is at least 0.9 * 0.3 + 0.7
C16_EqualStreetConfirms ==
    (Classified /\ StreetMatches) =>
        /\ best_match # None
        /\ FGe(best_score, FAdd(FMul(FRat(9, 10), FRat(3, 10)), FRat(7, 10)))
        /\ FGe(best_score, FRat(9, 10))
        /\ LastResult.status = StatusYes

\* a row without a house, whose settlement is only similar to the bucket that
\* holds its street, is confirmed with a composite below 1
C16_Witness ==
    /\ Classified
    /\ StreetMatches
    /\ address_data.house = <<>>
    /\ best_match # None
    /\ FLt(best_match.settlement_score, FOne)
    /\ FLt(best_score, FOne)
    /\ LastResult.status = StatusYes

\* every composite computed for the row lies between 0.3 times the settlement
\* threshold and 0.3 + STREET_WEIGHT + HOUSE_WEIGHT
ScoresWithinBounds ==
    \A i \in 1..Len(scores) :
        /\ FGe(scores[i], FMul(FRat(3, 10), FRat(9, 10)))
        /\ FGe(scores[i], FMul(FRat(3, 10), SETTLEMENT_MATCH_THRESHOLD))
        /\ FGe(FAdd(FAdd(FRat(3, 10), STREET_WEIGHT), HOUSE_WEIGHT), scores[i])
        /\ FGe(FRat(13, 10), scores[i])

\* C17: every office scored for a row has a composite of at least 0.27 and at
\* most 1.3; hence an office that was scored leaves a best match, a classified
\* row with an office among its candidates has a best match, and 'street not
\* found' is the result only when every candidate bucket is empty
C17_CompositeBounds ==
    /\ ScoresWithinBounds
    /\ (rpc = "StreetHouseSearch" /\ scores # <<>>) => best_match # None
    /\ (Classified /\ Candidates # <<>>) => best_match # None
    /\ (rpc = "Done" /\ LastResult.details.kind = "street_not_found") =>
          /\ matching_settlements # <<>>
          /\ \A k \in 1..Len(matching_settlements) : matching_settlements[k].offices = <<>>

\* a row was classified after several offices were scored, each at 0.3 to
\* 0.35, close to the lower bound, and one of them is the best match
C17_Witness ==
    /\ Classified
    /\ Len(scores) > 1
    /\ \E i \in 1..Len(scores) : scores[i] = FRat(3, 10)
    /\ \A i \in 1..Len(scores) : FLt(scores[i], FRat(35, 100))
    /\ best_match # None
    /\ LastResult.details.kind # "street_not_found"
====
